---- MODULE Spec2Model ----
(***************************************************************************)
(* State-machine model of the device registry of zea2/DeviceManager:       *)
(* devices (device.py), the per-kind discovery sources and the network      *)
(* probe (scanner/), and the DeviceManager registry (manager.py).           *)
(*                                                                         *)
(* Python objects are modelled by value.  An exception raised by a method   *)
(* is the "err" field of the record the modelling operator returns         *)
(* ("none" when the method returns normally); state written before the      *)
(* raise is kept, as in the code.  The platform is Linux                    *)
(* (scanner/__init__.py:49-52 selects the _linux scanners).                 *)
(***************************************************************************)
EXTENDS Integers, Sequences, FiniteSets, TLC

VARIABLES
    registry,     \* DeviceDict._dict: name -> DeviceTypeDict, an ordered kind map
    usbDevices,   \* LinuxUSBDeviceScanner._devices, the cached USB batch
    lanDevices,   \* LinuxLANDeviceScanner._devices, the cached LAN batch
    nmapResults,  \* NMAPWrapper._nmap_results, the probe's raw result cache
    nmapMode,     \* how the LAN source's probe was constructed (fixed per run)
    liveKinds,    \* the kinds whose backend may report devices (fixed per run)
    usbBus,       \* what pyudev enumerates now (the USB backend)
    arpTable,     \* the lines "arp -n" prints now (the LAN backend)
    shared,       \* the registry entries whose device is an object of a cached batch
    file,         \* the JSON file DeviceManager.save writes and load reads
    session,      \* the with-statement of load_device_manager the caller is in
    nmapThread,   \* NMAPWrapper._nmap_thread and how far that thread has run
    syncScan,     \* where the caller stands inside NMAPWrapper.scan
    asyncCalls,   \* what each scan_async call so far returned, in call order
    onDone,       \* the scan_async calls whose on_done was invoked
    scanLocal,    \* the caller's local values inside a call that takes two steps
    callbacks,    \* the scan that ended last and the callbacks its _scan invoked
    last          \* the operation under observation: arguments, outcome, source calls

\* The state of the probe's threads.
probeVars == <<nmapThread, syncScan, asyncCalls, onDone, scanLocal, callbacks>>

vars ==
    <<registry, usbDevices, lanDevices, nmapResults, nmapMode, liveKinds, usbBus,
      arpTable, shared, file, session, probeVars, last>>

(***************************************************************************)
(* Values                                                                  *)
(***************************************************************************)

\* Python's None, for the string-valued attributes.
None == "None"

\* LANDevice._mac_address is None.
NoMac == <<>>

Range(s) == {s[i] : i \in DOMAIN s}

\* DeviceType.USB / DeviceType.LAN, named by their values.
USB == "usb"
LAN == "lan"

DeviceTypes == <<USB, LAN>>

\* Transport addresses (bus paths, IP addresses) of the model.
Addresses == {"a1", "a2"}

\* Registry names of the model.
Names == {"n1"}

\* Number of octets of a hardware address.
MacOctets == 6

HexDigits ==
    {"0", "1", "2", "3", "4", "5", "6", "7", "8", "9",
     "A", "B", "C", "D", "E", "F", "a", "b", "c", "d", "e", "f"}

MacSeparators == {".", ":", "-"}

\* str.upper on one character of a hardware address.
Upper(c) ==
    CASE c = "a" -> "A" [] c = "b" -> "B" [] c = "c" -> "C"
      [] c = "d" -> "D" [] c = "e" -> "E" [] c = "f" -> "F"
      [] OTHER -> c

\* LANDevice._regex_mac.match: ^([0-9A-Fa-f]{2}[.:\-]){5}([0-9A-Fa-f]{2})$
\* In a Python pattern $ matches at the end of the string and also before a
\* newline that ends the string.
regex_mac(s) ==
    /\ \/ Len(s) = 3 * MacOctets - 1
       \/ Len(s) = 3 * MacOctets /\ s[3 * MacOctets] = "\n"
    /\ \A i \in 1..(3 * MacOctets - 1) :
          IF i % 3 = 0 THEN s[i] \in MacSeparators ELSE s[i] \in HexDigits

\* LANDevice.format_mac on a string given as its sequence of characters.
format_mac(mac_address) ==
    IF mac_address = NoMac THEN [err |-> "none", val |-> NoMac]
    ELSE IF ~regex_mac(mac_address) THEN [err |-> "TypeError", val |-> NoMac]
    ELSE [err |-> "none",
          val |-> [i \in 1..Len(mac_address) |->
                      IF mac_address[i] \in {"-", "."} THEN ":"
                      ELSE Upper(mac_address[i])]]

(***************************************************************************)
(* Devices (device.py)                                                     *)
(***************************************************************************)

\* USBDevice(): the attributes set by Device.__init__ and USBDevice.__init__
\* (the display names looked up from the vendor database are left out).
USBDevice ==
    [device_type |-> USB, address |-> None, address_aliases |-> <<>>,
     old_addresses |-> <<>>, vendor_id |-> None, product_id |-> None,
     revision_id |-> None, serial |-> None]

\* LANDevice(): the attributes set by Device.__init__ and LANDevice.__init__.
LANDevice ==
    [device_type |-> LAN, address |-> None, address_aliases |-> <<>>,
     old_addresses |-> <<>>, mac_address |-> NoMac]

\* Device.all_addresses
all_addresses(d) ==
    IF d.address = None THEN d.address_aliases
    ELSE <<d.address>> \o d.address_aliases

\* An element that is no string and not None (the 123 of the tests).
Number == "123"

\* The loop of the address_aliases setter over the elements handed to it:
\* None is skipped, a string is appended to the list the setter has already
\* bound to the device, anything else raises.
RECURSIVE address_aliases_loop(_, _)
address_aliases_loop(self, items) ==
    IF items = <<>> THEN [err |-> "none", dev |-> self]
    ELSE IF Head(items) = None THEN address_aliases_loop(self, Tail(items))
    ELSE IF Head(items) = Number THEN [err |-> "TypeError", dev |-> self]
    ELSE address_aliases_loop([self EXCEPT !.address_aliases = Append(@, Head(items))],
                              Tail(items))

\* The setter of Device.address_aliases.  `value` is [type, items]: type is
\* "none" for None, "str" for a string (items holds it), "iter" for an
\* iterable of items, "other" for a value that cannot be iterated; enumerate
\* raises TypeError for that one, after the list was emptied.
address_aliases_setter(self, value) ==
    IF value.type = "none"
    THEN [err |-> "none", dev |-> [self EXCEPT !.address_aliases = <<>>]]
    ELSE IF value.type = "str"
    THEN [err |-> "none", dev |-> [self EXCEPT !.address_aliases = value.items]]
    ELSE IF value.type = "other"
    THEN [err |-> "TypeError", dev |-> [self EXCEPT !.address_aliases = <<>>]]
    ELSE address_aliases_loop([self EXCEPT !.address_aliases = <<>>], value.items)

\* USBDevice.unique_identifier / LANDevice.unique_identifier: the filters
\* handed to find_devices, attribute name -> value.
unique_identifier(d) ==
    IF d.device_type = USB
    THEN [vendor_id |-> d.vendor_id, product_id |-> d.product_id, serial |-> d.serial]
    ELSE [mac_address |-> d.mac_address]

\* Device.__eq__: the same class and the same set of addresses.
Device_eq(self, other) ==
    /\ self.device_type = other.device_type
    /\ Range(all_addresses(self)) = Range(all_addresses(other))

\* USBDevice.__eq__ / LANDevice.__eq__ after super().__eq__ returned `base`.
eq_identifying(self, other, base) ==
    /\ base
    /\ IF self.device_type = USB
       THEN /\ self.vendor_id = other.vendor_id
            /\ self.product_id = other.product_id
            /\ self.revision_id = other.revision_id
            /\ self.serial = other.serial
       ELSE self.mac_address = other.mac_address

\* self == other for two devices.
eq(self, other) == eq_identifying(self, other, Device_eq(self, other))

\* The loop of Device.reset_addresses: append each address not yet in the list.
RECURSIVE AppendNew(_, _)
AppendNew(old, addrs) ==
    IF addrs = <<>> THEN old
    ELSE AppendNew(IF Head(addrs) \in Range(old) THEN old ELSE Append(old, Head(addrs)),
                   Tail(addrs))

\* Device.reset_addresses as it would be if it appended every current address.
reset_addresses_appending_all(d) ==
    [d EXCEPT !.old_addresses = @ \o all_addresses(d),
              !.address = None,
              !.address_aliases = <<>>]

\* Device.reset_addresses as it would be if it dropped the current addresses.
reset_addresses_forgetting(d) ==
    [d EXCEPT !.address = None, !.address_aliases = <<>>]

\* Device.reset_addresses
reset_addresses(d) ==
    [d EXCEPT !.old_addresses = AppendNew(@, all_addresses(d)),
              !.address = None,
              !.address_aliases = <<>>]

\* Iterating a Python set of strings: the elements in the order a hash order
\* `ord` (a permutation of Addresses) puts them.
SetIter(S, ord) == SelectSeq(ord, LAMBDA a : a \in S)

\* The hash orders a run of the interpreter may have.
Orderings(S) ==
    {p \in [1..Cardinality(S) -> S] : \A i, j \in DOMAIN p : p[i] = p[j] => i = j}

HashOrders == Orderings(Addresses)

\* Device.from_device as it would be if the history kept the addresses that
\* are current after the update.
Device_from_device_keeping_current(self, other, ord) ==
    LET r == reset_addresses(self)
        s == [r EXCEPT !.address = other.address,
                       !.address_aliases = other.address_aliases]
    IN  [s EXCEPT !.old_addresses =
                      SetIter(Range(r.old_addresses) \cup Range(other.old_addresses), ord)]

\* Device.from_device as it would be if it kept the addresses that were
\* current as aliases.
Device_from_device_adding_aliases(self, other, ord) ==
    LET r == reset_addresses(self)
        s == [r EXCEPT !.address = other.address,
                       !.address_aliases = other.address_aliases \o all_addresses(self)]
    IN  [s EXCEPT !.old_addresses =
                      SetIter((Range(r.old_addresses) \cup Range(other.old_addresses))
                                 \ Range(all_addresses(s)), ord)]

\* Device.from_device, for `other` an object other than `self` of the same
\* class: the base-class part.
Device_from_device(self, other, ord) ==
    LET r == reset_addresses(self)
        s == [r EXCEPT !.address = other.address,
                       !.address_aliases = other.address_aliases]
        olds == Range(r.old_addresses) \cup Range(other.old_addresses)
    IN  [s EXCEPT !.old_addresses =
                      SetIter(olds \ Range(all_addresses(s)), ord)]

\* USBDevice.from_device / LANDevice.from_device
from_device(self, other, ord) ==
    LET s == Device_from_device(self, other, ord)
    IN  IF self.device_type = USB
        THEN [s EXCEPT
                !.vendor_id = IF other.vendor_id # None THEN other.vendor_id ELSE @,
                !.product_id = IF other.product_id # None THEN other.product_id ELSE @,
                !.revision_id = IF other.revision_id # None THEN other.revision_id ELSE @,
                !.serial = IF other.serial # None THEN other.serial ELSE @]
        ELSE [s EXCEPT
                !.mac_address = IF other.mac_address # NoMac
                                THEN format_mac(other.mac_address).val ELSE @]

(***************************************************************************)
(* Discovery sources (scanner/_base.py, scanner/_linux.py, scanner/nmap.py) *)
(*                                                                         *)
(* `src` is the state of the sources during one registry operation:         *)
(* [usb, lan, nmap, calls, fresh], the three caches, the log of the calls   *)
(* made to the per-kind _scan methods, to the backends, to the probe and    *)
(* to warnings.warn, and the kinds whose batch was rebuilt from new        *)
(* objects.  `env` is what the backends report while the operation runs:    *)
(* [bus, arp, mode].                                                        *)
(***************************************************************************)

\* _match_filters with the address filter compared to the primary address only.
match_filters_primary_only(device, filters) ==
    \A attr \in DOMAIN filters : attr \in DOMAIN device /\ filters[attr] = device[attr]

\* BaseDeviceScanner._match_filters; a filter on an attribute the device does
\* not have is the AttributeError branch.
match_filters(device, filters) ==
    \A attr \in DOMAIN filters :
        IF attr = "address"
        THEN filters[attr] \in Range(all_addresses(device))
        ELSE attr \in DOMAIN device /\ filters[attr] = device[attr]

\* The generator of BaseDeviceScanner.find_devices over the cached batch.
filter_devices(devices, filters) ==
    SelectSeq(devices, LAMBDA d : match_filters(d, filters))

\* The sources after one more call is logged.
Logged(src, call) == [src EXCEPT !.calls = Append(@, call)]

\* The sources after warnings.warn of a query that returned more than one
\* device.
Warned(src) == Logged(src, <<"warning", TRUE>>)

\* The sources after the backend of a kind was asked for its devices:
\* self._context.list_devices() of pyudev, self._get_arp_cache().
Enumerated(src) == Logged(src, <<"pyudev", TRUE>>)
Looked_up(src) == Logged(src, <<"arp", TRUE>>)

\* LinuxUSBDeviceScanner._scan: the batch is the enumeration of the bus, each
\* raw device converted by _device_from_raw.
LinuxUSB_scan(src, env, rescan) ==
    IF Len(src.usb) > 0 /\ ~rescan THEN Logged(src, <<USB, rescan>>)
    ELSE [Enumerated(Logged(src, <<USB, rescan>>)) EXCEPT
             !.usb = env.bus, !.fresh = @ \cup {USB}]

\* Position of the device with hardware address `mac` in a batch, 0 if none
\* (the dictionaries of _get_arp_cache and _scan are keyed by mac_address).
MacIndex(devices, mac) ==
    IF \E i \in DOMAIN devices : devices[i].mac_address = mac
    THEN CHOOSE i \in DOMAIN devices : devices[i].mac_address = mac
    ELSE 0

\* LinuxLANDeviceScanner._get_arp_cache over the lines the regular expression
\* accepts, each [ip, mac]; the result in dictionary (first-seen) order.
RECURSIVE get_arp_cache(_, _)
get_arp_cache(lines, devices) ==
    IF lines = <<>> THEN devices
    ELSE LET line == Head(lines)
             mac == format_mac(line.mac).val
             i == MacIndex(devices, mac)
         IN  IF i # 0
             THEN get_arp_cache(Tail(lines),
                    IF line.ip \in Range(all_addresses(devices[i])) THEN devices
                    ELSE [devices EXCEPT ![i].address_aliases = Append(@, line.ip)])
             ELSE get_arp_cache(Tail(lines),
                    Append(devices, [LANDevice EXCEPT !.address = line.ip,
                                                      !.mac_address = mac]))

\* Position of `key` in the key list of a dictionary, 0 if absent.
KeyIndex(keys, key) ==
    IF \E i \in DOMAIN keys : keys[i] = key
    THEN CHOOSE i \in DOMAIN keys : keys[i] = key
    ELSE 0

\* The loop of NMAPWrapper.devices over the raw results, each [mac, ips] with
\* ips the ipv4 and ipv6 entries present; the dictionary is keyed by the raw
\* mac string (`keys`).  Assigning [*aliases, address_aliases] hands the
\* aliases setter a list element, which it rejects with TypeError.
RECURSIVE nmap_devices_loop(_, _, _)
nmap_devices_loop(raw_devices, keys, devices) ==
    IF raw_devices = <<>> THEN [err |-> "none", devices |-> devices]
    ELSE LET raw == Head(raw_devices)
             i == KeyIndex(keys, raw.mac)
         IN  IF raw.mac = NoMac THEN nmap_devices_loop(Tail(raw_devices), keys, devices)
             ELSE IF i # 0
             THEN IF \E ip \in Range(raw.ips) : ip \notin Range(all_addresses(devices[i]))
                  THEN [err |-> "TypeError", devices |-> devices]
                  ELSE nmap_devices_loop(Tail(raw_devices), keys, devices)
             ELSE IF format_mac(raw.mac).err # "none"
             THEN [err |-> "TypeError", devices |-> devices]
             ELSE IF raw.ips = <<>>
             THEN [err |-> "IndexError", devices |-> devices]
             ELSE nmap_devices_loop(Tail(raw_devices), Append(keys, raw.mac),
                    Append(devices, [LANDevice EXCEPT
                                        !.mac_address = format_mac(raw.mac).val,
                                        !.address = Head(raw.ips),
                                        !.address_aliases = Tail(raw.ips)]))

\* NMAPWrapper.devices
nmap_devices(raw_devices) == nmap_devices_loop(raw_devices, <<>>, <<>>)

\* The loop of BaseLANDeviceScanner._scan that folds the probe's devices into
\* the ARP devices (same list-element assignment as above).
RECURSIVE FoldProbe(_, _)
FoldProbe(devices, probed) ==
    IF probed = <<>> THEN [err |-> "none", devices |-> devices]
    ELSE LET dev == Head(probed)
             i == MacIndex(devices, dev.mac_address)
         IN  IF i # 0
             THEN IF \E ip \in Range(all_addresses(dev)) :
                         ip \notin Range(all_addresses(devices[i]))
                  THEN [err |-> "TypeError", devices |-> devices]
                  ELSE FoldProbe(devices, Tail(probed))
             ELSE FoldProbe(Append(devices, dev), Tail(probed))

\* The end of BaseLANDeviceScanner._scan: the batch becomes the folded
\* devices, unless the fold raised.
LAN_scan_store(src, folded) ==
    IF folded.err # "none" THEN [err |-> folded.err, src |-> src]
    ELSE [err |-> "none",
          src |-> [src EXCEPT !.lan = folded.devices, !.fresh = @ \cup {LAN}]]

\* BaseLANDeviceScanner._scan from the loop over self.nmap.devices on, `arp`
\* being the devices of the ARP cache and `probed` the outcome of
\* NMAPWrapper.devices.
LAN_scan_fold(src, arp, probed) ==
    IF probed.err # "none" THEN [err |-> probed.err, src |-> src]
    ELSE LAN_scan_store(src, FoldProbe(arp, probed.devices))

\* BaseLANDeviceScanner._scan; self.nmap is None when the probe could not be
\* constructed (mode "absent").  The method returns None.
BaseLAN_scan(src, env, rescan) ==
    IF Len(src.lan) > 0 /\ ~rescan
    THEN [err |-> "none", src |-> Logged(src, <<LAN, rescan>>)]
    ELSE IF env.mode = "absent"
    THEN [err |-> "none",
          src |-> [Looked_up(Logged(src, <<LAN, rescan>>)) EXCEPT
                      !.lan = get_arp_cache(env.arp, <<>>), !.fresh = @ \cup {LAN}]]
    ELSE LAN_scan_fold(Looked_up(Logged(src, <<LAN, rescan>>)),
                       get_arp_cache(env.arp, <<>>), nmap_devices(src.nmap))

\* The generator of BaseDeviceScanner.find_devices over the batch a scan left.
USB_filter(s, filters) ==
    [err |-> "none", devices |-> filter_devices(s.usb, filters), src |-> s]

\* BaseDeviceScanner.find_devices on the USB source.
USB_find_devices(src, env, rescan, filters) ==
    USB_filter(LinuxUSB_scan(src, env, rescan), filters)

\* BaseDeviceScanner.find_devices on the LAN source after the filters are
\* canonicalized and _scan returned `s`.
LAN_filter(s, filters) ==
    IF s.err # "none" THEN [err |-> s.err, devices |-> <<>>, src |-> s.src]
    ELSE [err |-> "none", devices |-> filter_devices(s.src.lan, filters), src |-> s.src]

\* BaseLANDeviceScanner.find_devices: a mac_address filter is canonicalized first.
LAN_find_devices(src, env, rescan, filters) ==
    IF "mac_address" \in DOMAIN filters
    THEN IF format_mac(filters.mac_address).err # "none"
         THEN [err |-> format_mac(filters.mac_address).err, devices |-> <<>>, src |-> src]
         ELSE LAN_filter(BaseLAN_scan(src, env, rescan),
                         [filters EXCEPT !.mac_address = format_mac(@).val])
    ELSE LAN_filter(BaseLAN_scan(src, env, rescan), filters)

\* The end of DeviceScanner._scan: self._devices.extend(None) raises TypeError,
\* unless the LAN source's _scan raised before.
Aggregate_extend(l) ==
    [err |-> IF l.err # "none" THEN l.err ELSE "TypeError",
     devices |-> <<>>, src |-> l.src]

\* BaseDeviceScanner.find_devices on the aggregate DeviceScanner: its _scan
\* extends its list by what each per-kind _scan returns, and the LAN source's
\* _scan returns None, so the call ends in TypeError after both sources ran.
\* (The aggregate's own _devices list is read by nothing else and left out.)
Aggregate_find_devices(src, env, rescan, filters) ==
    Aggregate_extend(BaseLAN_scan(LinuxUSB_scan(src, env, rescan), env, rescan))

\* BaseDeviceScanner.list_devices on the USB source: tuple(self._devices)
\* after _scan returned `s`.
USB_batch(s) == [err |-> "none", devices |-> s.usb, src |-> s]

USB_list_devices(src, env, rescan) == USB_batch(LinuxUSB_scan(src, env, rescan))

\* BaseDeviceScanner.list_devices on the LAN source.
LAN_batch(s) ==
    IF s.err # "none" THEN [err |-> s.err, devices |-> <<>>, src |-> s.src]
    ELSE [err |-> "none", devices |-> s.src.lan, src |-> s.src]

LAN_list_devices(src, env, rescan) == LAN_batch(BaseLAN_scan(src, env, rescan))

\* BaseDeviceScanner.list_devices on the aggregate DeviceScanner: the same
\* _scan as under find_devices.
Aggregate_list_devices(src, env, rescan) ==
    Aggregate_extend(BaseLAN_scan(LinuxUSB_scan(src, env, rescan), env, rescan))

\* The finally block of NMAPWrapper._scan: the LAN source is notified
\* (lambda b: self._scan(True)); `notified` is the outcome of that _scan.
NMAP_notified(result, notified) ==
    [err |-> notified.err, result |-> result, src |-> notified.src]

\* NMAPWrapper.scan -> NMAPWrapper._scan(hosts, None).  `outcome` is what the
\* port scanner does: [ok, hosts], ok false for a PortScannerError or a
\* UnicodeDecodeError.  With no port scanner (mode "invalid") it returns False
\* at once; otherwise the new raw results are stored and the LAN source is
\* notified.
NMAP_scan(src, env, outcome) ==
    IF env.mode = "invalid"
    THEN [err |-> "none", result |-> FALSE, src |-> Logged(src, <<"nmap", FALSE>>)]
    ELSE NMAP_notified(outcome.ok,
            BaseLAN_scan(IF outcome.ok
                         THEN [Logged(src, <<"nmap", FALSE>>) EXCEPT
                                  !.nmap = AppendNew(@, outcome.hosts)]
                         ELSE Logged(src, <<"nmap", FALSE>>),
                         env, TRUE))

\* The hosts of a scan for which `device not in self._nmap_results` holds.
Unstored(results, hosts) == SelectSeq(hosts, LAMBDA h : h \notin Range(results))

\* NMAPWrapper._scan from self._nmap_results.append on, for a scan that found
\* the raw results `new` missing (none when the port scanner failed): they
\* are appended and the finally block notifies the LAN source.
NMAP_scan_append(src, env, ok, new) ==
    NMAP_notified(ok,
        BaseLAN_scan([Logged(src, <<"nmap", FALSE>>) EXCEPT !.nmap = @ \o new],
                     env, TRUE))

\* The calls of the finally block of NMAPWrapper._scan that ended as `r`, in
\* order, each <<callee, flag>>: the LAN source's callback, then on_done if
\* one was given and the callback returned.  Without a port scanner _scan
\* returns before the try statement.
Invoked(r, env, on_done) ==
    IF env.mode = "invalid" THEN <<>>
    ELSE <<<<"parent", r.result>>>>
         \o (IF r.err = "none" /\ on_done THEN <<<<"on_done", r.result>>>> ELSE <<>>)

\* threading.Thread.is_alive for the thread self._nmap_thread refers to:
\* [state, call], state "none" for no thread, "started" from start() until the
\* port scanner is called, "scanning" while it runs, "finished" after the
\* thread's _scan returned; call is the scan_async call that started it.
is_alive(thread) == thread.state \in {"started", "scanning"}

\* NMAPWrapper.is_scan_alive: a thread that has ended is forgotten.
NMAP_is_scan_alive(thread) ==
    [ret |-> is_alive(thread),
     thread |-> IF thread.state = "finished" THEN [state |-> "none", call |-> 0]
                ELSE thread]

\* scan_async as it would be without the check for a running scan.
NMAP_scan_async_unchecked(thread, call) ==
    [ret |-> TRUE, thread |-> [state |-> "started", call |-> call]]

\* NMAPWrapper.scan_async, the call number `call`: refused while a scan thread
\* is alive, else a new thread is created and started.
NMAP_scan_async(thread, call) ==
    IF NMAP_is_scan_alive(thread).ret THEN [ret |-> FALSE, thread |-> thread]
    ELSE [ret |-> TRUE, thread |-> [state |-> "started", call |-> call]]

\* NMAPWrapper.wait_for_scan when is_scan_alive() is False: True at once.
NMAP_wait_for_scan_idle(thread) ==
    [ret |-> TRUE, thread |-> NMAP_is_scan_alive(thread).thread]

\* NMAPWrapper.wait_for_scan after join(timeout) returned: is_scan_alive().
NMAP_wait_for_scan_joined(thread) ==
    [ret |-> NMAP_is_scan_alive(thread).ret,
     thread |-> NMAP_is_scan_alive(thread).thread]

(***************************************************************************)
(* Kind keys (device.py: DeviceType._missing_, DeviceTypeDict._get_key)     *)
(*                                                                         *)
(* A kind key is <<form, text>>: no kind given, a DeviceType member, or a   *)
(* string.                                                                  *)
(***************************************************************************)

NoKind == <<"none", "">>
EnumKind(t) == <<"enum", t>>
StrKind(t) == <<"str", t>>

\* str.lower on the kind strings of the model.
Lower(t) == CASE t = "USB" -> "usb" [] t = "LAN" -> "lan" [] OTHER -> t

\* DeviceTypeDict._get_key: DeviceType(key), KeyError for an unknown tag.
\* _missing_ matches a string against the member values and then the member
\* names, both lowercased.
get_key(k) ==
    IF k[1] = "enum" THEN [err |-> "none", kind |-> k[2]]
    ELSE IF k[1] = "str" /\ Lower(k[2]) \in Range(DeviceTypes)
    THEN [err |-> "none", kind |-> Lower(k[2])]
    ELSE [err |-> "KeyError", kind |-> None]

\* DeviceScanner.__getitem__ followed by find_devices on the source it returns.
Scanner_find_devices(device_type, src, env, rescan, filters) ==
    IF device_type = NoKind THEN Aggregate_find_devices(src, env, rescan, filters)
    ELSE IF get_key(device_type).err # "none"
    THEN [err |-> "KeyError", devices |-> <<>>, src |-> src]
    ELSE IF get_key(device_type).kind = USB
    THEN USB_find_devices(src, env, rescan, filters)
    ELSE LAN_find_devices(src, env, rescan, filters)

\* DeviceScanner.__getitem__ followed by list_devices on the source it returns.
Scanner_list_devices(device_type, src, env, rescan) ==
    IF device_type = NoKind THEN Aggregate_list_devices(src, env, rescan)
    ELSE IF get_key(device_type).err # "none"
    THEN [err |-> "KeyError", devices |-> <<>>, src |-> src]
    ELSE IF get_key(device_type).kind = USB
    THEN USB_list_devices(src, env, rescan)
    ELSE LAN_list_devices(src, env, rescan)

(***************************************************************************)
(* DeviceManager.find_by_address / find_by_device (manager.py)              *)
(***************************************************************************)

\* The batch of `kind` among the caches `src`.
Batch(src, kind) == IF kind = USB THEN src.usb ELSE src.lan

\* Position in its batch of the first device a query returned: find_devices
\* returns the objects of the batch, in batch order.
FirstAt(q) ==
    CHOOSE i \in DOMAIN Batch(q.src, q.devices[1].device_type) :
        /\ Batch(q.src, q.devices[1].device_type)[i] = q.devices[1]
        /\ \A j \in 1..(i - 1) : Batch(q.src, q.devices[1].device_type)[j] # q.devices[1]

\* The end of DeviceManager.find_by_address: the first device of the last
\* query, or None.  `at` is where the batch of its kind holds that object.
find_by_address_result(q) ==
    [err |-> q.err,
     found |-> q.err = "none" /\ Len(q.devices) > 0,
     dev |-> IF q.err = "none" /\ Len(q.devices) > 0 THEN q.devices[1] ELSE USBDevice,
     at |-> IF q.err = "none" /\ Len(q.devices) > 0 THEN FirstAt(q) ELSE 0,
     ambiguous |-> Len(q.devices) > 1,
     src |-> IF Len(q.devices) > 1 THEN Warned(q.src) ELSE q.src]

\* The third step of DeviceManager.find_by_address, after the query `q` of the
\* rescan: for kind LAN or no kind, and a probe that exists, the probe scans
\* the address (its exceptions are swallowed) and the LAN cache is read again.
find_by_address_probe(address, device_type, env, outcome, q) ==
    IF /\ q.err = "none" /\ Len(q.devices) = 0
       /\ device_type \in {EnumKind(LAN), NoKind}
       /\ env.mode # "absent"
    THEN find_by_address_result(
             LAN_find_devices(NMAP_scan(q.src, env, outcome).src, env, FALSE,
                              [address |-> address]))
    ELSE find_by_address_result(q)

\* The second step of DeviceManager.find_by_address, after the query `q` of
\* the cache: a rescan if it found nothing.
find_by_address_rescan(address, device_type, env, outcome, q) ==
    find_by_address_probe(address, device_type, env, outcome,
        IF q.err = "none" /\ Len(q.devices) = 0
        THEN Scanner_find_devices(device_type, q.src, env, TRUE, [address |-> address])
        ELSE q)

\* DeviceManager.find_by_address.  `device_type` is the kind key as given.
find_by_address(address, device_type, src, env, outcome) ==
    find_by_address_rescan(address, device_type, env, outcome,
        Scanner_find_devices(device_type, src, env, FALSE, [address |-> address]))

\* The result record of find_by_device: found (a device is returned, not
\* None), is_ref (the device returned is search_device itself), dev (the
\* device returned) and ref (search_device after the call).  This one is the
\* result None with the sources left as `src`.
NotFound(search_device, src) ==
    [err |-> "none", found |-> FALSE, is_ref |-> FALSE, dev |-> search_device,
     ref |-> search_device, ambiguous |-> FALSE, src |-> src]

\* DeviceManager.find_by_device after the query `q` of the rescan.
\* copy.copy shares the list _old_addresses between search_device and its
\* copy, so the reset_addresses inside result.from_device appends
\* search_device's current addresses to search_device._old_addresses as well.
\* A LAN search with an empty result evaluates scanner.nmap.valid, an attribute
\* neither NMAPWrapper nor None has.
find_by_device_result(search_device, q, ord) ==
    IF q.err # "none" THEN [NotFound(search_device, q.src) EXCEPT !.err = q.err]
    ELSE IF Len(q.devices) = 0 /\ search_device.device_type = LAN
    THEN [NotFound(search_device, q.src) EXCEPT !.err = "AttributeError"]
    ELSE IF Len(q.devices) > 0
    THEN [NotFound(search_device,
                   IF Len(q.devices) > 1 THEN Warned(q.src) ELSE q.src) EXCEPT
            !.found = TRUE,
            !.dev = from_device(search_device, q.devices[1], ord),
            !.ref = [search_device EXCEPT
                        !.old_addresses = AppendNew(@, all_addresses(search_device))],
            !.ambiguous = Len(q.devices) > 1]
    ELSE NotFound(search_device, q.src)

\* DeviceManager.find_by_device as it would be without the early return for a
\* device that has addresses.
find_by_device_always_searching(search_device, scan, src, env, ord) ==
    find_by_device_result(search_device,
        Scanner_find_devices(EnumKind(search_device.device_type), src, env,
                             TRUE, unique_identifier(search_device)),
        ord)

\* DeviceManager.find_by_device
find_by_device(search_device, scan, src, env, ord) ==
    IF Len(all_addresses(search_device)) > 0 /\ ~scan
    THEN [NotFound(search_device, src) EXCEPT !.found = TRUE, !.is_ref = TRUE]
    ELSE find_by_device_result(search_device,
             Scanner_find_devices(EnumKind(search_device.device_type), src, env,
                                  TRUE, unique_identifier(search_device)),
             ord)

\* What DeviceManager.get and DeviceManager.set do with the result `f` of
\* find_by_device(device): device.from_device(found) if a device was found,
\* else device.reset_addresses() if it has addresses.  from_device returns at
\* once when found is the device itself.
update_device(device, f, ord) ==
    [err |-> f.err,
     src |-> f.src,
     dev |-> IF f.err # "none" THEN f.ref
             ELSE IF f.found
             THEN (IF f.is_ref THEN device ELSE from_device(f.ref, f.dev, ord))
             ELSE IF Len(all_addresses(device)) > 0 THEN reset_addresses(device)
             ELSE device]

\* The reconciliation of one device in DeviceManager.get and DeviceManager.set.
reconcile(device, scan, src, env, ord) ==
    update_device(device, find_by_device(device, scan, src, env, ord), ord)

(***************************************************************************)
(* DeviceDict and DeviceManager (manager.py)                                *)
(*                                                                         *)
(* The registry is a function from the stored names to their kind maps; a   *)
(* kind map (DeviceTypeDict, a dict) is the sequence of its devices in      *)
(* insertion order, each stored under its own device_type.  A key is        *)
(* [name, kind]: kind is NoKind for a plain string key, the second          *)
(* component of a pair otherwise, and BadKey for a key that is neither a    *)
(* string nor a pair.                                                       *)
(***************************************************************************)

BadKey == <<"bad", "">>

\* DeviceDict._getitem_key
getitem_key(key) ==
    IF key.kind = BadKey THEN [err |-> "TypeError", name |-> key.name, device_type |-> NoKind]
    ELSE [err |-> "none", name |-> key.name, device_type |-> key.kind]

\* Position of the device of `kind` in a kind map, 0 if none.
KindIndex(devices, kind) ==
    IF \E i \in DOMAIN devices : devices[i].device_type = kind
    THEN CHOOSE i \in DOMAIN devices : devices[i].device_type = kind
    ELSE 0

\* DeviceDict.set: self._dict[key][value.device_type] = value, the kind map
\* created when the name is new.
DeviceDict_set(reg, name, device) ==
    LET devices == IF name \in DOMAIN reg THEN reg[name] ELSE <<>>
        i == KindIndex(devices, device.device_type)
        updated == IF i # 0 THEN [devices EXCEPT ![i] = device]
                   ELSE Append(devices, device)
    IN  [n \in DOMAIN reg \cup {name} |-> IF n = name THEN updated ELSE reg[n]]

\* DeviceDict.get as it would be if a plain name always gave the mapping.
DeviceDict_get_always_mapping(reg, key) ==
    LET k == getitem_key(key)
        t == get_key(k.device_type)
        fail(e) == [err |-> e, name |-> k.name, selected |-> <<>>, single |-> FALSE]
    IN  IF k.err # "none" THEN fail(k.err)
        ELSE IF k.name \notin DOMAIN reg THEN fail("KeyError")
        ELSE IF k.device_type = NoKind
        THEN [err |-> "none", name |-> k.name,
              selected |-> [i \in 1..Len(reg[k.name]) |-> i],
              single |-> FALSE]
        ELSE IF t.err # "none" \/ KindIndex(reg[k.name], t.kind) = 0 THEN fail("KeyError")
        ELSE [err |-> "none", name |-> k.name,
              selected |-> <<KindIndex(reg[k.name], t.kind)>>, single |-> TRUE]

\* DeviceDict.get: the positions, in the kind map of the name, of the devices
\* the key selects (all of them for a plain name), or KeyError.  `single`
\* tells a device is returned, not a copy of the kind map.
DeviceDict_get(reg, key) ==
    LET k == getitem_key(key)
        t == get_key(k.device_type)
        fail(e) == [err |-> e, name |-> k.name, selected |-> <<>>, single |-> FALSE]
    IN  IF k.err # "none" THEN fail(k.err)
        ELSE IF k.name \notin DOMAIN reg THEN fail("KeyError")
        ELSE IF k.device_type = NoKind
        THEN [err |-> "none", name |-> k.name,
              selected |-> [i \in 1..Len(reg[k.name]) |-> i],
              single |-> Len(reg[k.name]) = 1]
        ELSE IF t.err # "none" \/ KindIndex(reg[k.name], t.kind) = 0 THEN fail("KeyError")
        ELSE [err |-> "none", name |-> k.name,
              selected |-> <<KindIndex(reg[k.name], t.kind)>>, single |-> TRUE]

\* Removes position i of a sequence.
RemoveAt(seq, i) == [j \in 1..(Len(seq) - 1) |-> IF j < i THEN seq[j] ELSE seq[j + 1]]

\* DeviceDict.remove as it would be if deleting a key that is not there were
\* no error.
DeviceDict_remove_if_present(reg, key) ==
    LET k == getitem_key(key)
        t == get_key(k.device_type)
        without == [n \in DOMAIN reg \ {k.name} |-> reg[n]]
        i == KindIndex(reg[k.name], t.kind)
        rest == RemoveAt(reg[k.name], i)
    IN  IF k.err # "none" THEN [err |-> k.err, reg |-> reg]
        ELSE IF k.name \notin DOMAIN reg THEN [err |-> "none", reg |-> reg]
        ELSE IF k.device_type = NoKind THEN [err |-> "none", reg |-> without]
        ELSE IF t.err # "none" \/ i = 0 THEN [err |-> "none", reg |-> reg]
        ELSE [err |-> "none",
              reg |-> IF Len(rest) <= 0 THEN without
                      ELSE [reg EXCEPT ![k.name] = rest]]

\* DeviceDict.remove as it would be if the name stayed when its last kind
\* entry is deleted.
DeviceDict_remove_keeping_name(reg, key) ==
    LET k == getitem_key(key)
        t == get_key(k.device_type)
        without == [n \in DOMAIN reg \ {k.name} |-> reg[n]]
        i == KindIndex(reg[k.name], t.kind)
    IN  IF k.err # "none" THEN [err |-> k.err, reg |-> reg]
        ELSE IF k.name \notin DOMAIN reg THEN [err |-> "KeyError", reg |-> reg]
        ELSE IF k.device_type = NoKind THEN [err |-> "none", reg |-> without]
        ELSE IF t.err # "none" \/ i = 0 THEN [err |-> "KeyError", reg |-> reg]
        ELSE [err |-> "none", reg |-> [reg EXCEPT ![k.name] = RemoveAt(@, i)]]

\* DeviceDict.remove
DeviceDict_remove(reg, key) ==
    LET k == getitem_key(key)
        t == get_key(k.device_type)
        without == [n \in DOMAIN reg \ {k.name} |-> reg[n]]
        i == KindIndex(reg[k.name], t.kind)
        rest == RemoveAt(reg[k.name], i)
    IN  IF k.err # "none" THEN [err |-> k.err, reg |-> reg]
        ELSE IF k.name \notin DOMAIN reg THEN [err |-> "KeyError", reg |-> reg]
        ELSE IF k.device_type = NoKind THEN [err |-> "none", reg |-> without]
        ELSE IF t.err # "none" \/ i = 0 THEN [err |-> "KeyError", reg |-> reg]
        ELSE [err |-> "none",
              reg |-> IF Len(rest) <= 0 THEN without
                      ELSE [reg EXCEPT ![k.name] = rest]]

\* The outcome of a registry operation that raised `err` with the sources
\* left as `src`.  In an outcome, `stored` is the kind an object was stored
\* under, if one was, and `at` the position of that object in the batch of
\* its kind, 0 if it is no object of a batch.
Raised(err, reg, src) ==
    [err |-> err, reg |-> reg, src |-> src, stored |-> <<>>, at |-> 0]

\* DeviceManager.set for a string value, after find_by_address returned `a`:
\* the object stored is the one the source holds in its batch.  The
\* ValueError message reads device_type.value, which a string kind does not
\* have.
set_address(reg, k, a) ==
    IF a.err # "none" THEN Raised(a.err, reg, a.src)
    ELSE IF ~a.found
    THEN Raised(IF k.device_type[1] = "str" THEN "AttributeError" ELSE "ValueError",
                reg, a.src)
    ELSE [err |-> "none", reg |-> DeviceDict_set(reg, k.name, a.dev), src |-> a.src,
          stored |-> <<a.dev.device_type>>, at |-> a.at]

\* DeviceManager.set for a Device value, after the reconciliation `r` of it.
set_device(reg, k, r) ==
    IF r.err # "none" THEN Raised(r.err, reg, r.src)
    ELSE [err |-> "none", reg |-> DeviceDict_set(reg, k.name, r.dev), src |-> r.src,
          stored |-> <<r.dev.device_type>>, at |-> 0]

\* DeviceManager.set as it would be without the comparison of the key's kind
\* with the device's.
set_value_any_kind(reg, src, env, k, value, scan, ord, outcome) ==
    IF k.err # "none" THEN Raised(k.err, reg, src)
    ELSE IF value.type = "str"
    THEN set_address(reg, k,
             find_by_address(value.address, k.device_type, src, env, outcome))
    ELSE IF value.type = "device"
    THEN set_device(reg, k, reconcile(value.dev, scan, src, env, ord))
    ELSE Raised("TypeError", reg, src)

\* DeviceManager.set as it would be if a value of another type were reported
\* as a ValueError.
set_value_other_as_value_error(reg, src, env, k, value, scan, ord, outcome) ==
    IF k.err # "none" THEN Raised(k.err, reg, src)
    ELSE IF value.type = "str"
    THEN set_address(reg, k,
             find_by_address(value.address, k.device_type, src, env, outcome))
    ELSE IF value.type = "device"
    THEN IF k.device_type # NoKind /\ k.device_type # EnumKind(value.dev.device_type)
         THEN Raised("ValueError", reg, src)
         ELSE set_device(reg, k, reconcile(value.dev, scan, src, env, ord))
    ELSE Raised("ValueError", reg, src)

\* DeviceManager.set after _getitem_key returned `k`.  `value` is
\* [type, address] for a string, [type, dev] for a Device, [type] for anything
\* else.  A kind given as a string never equals the DeviceType of a device.
set_value(reg, src, env, k, value, scan, ord, outcome) ==
    IF k.err # "none" THEN Raised(k.err, reg, src)
    ELSE IF value.type = "str"
    THEN set_address(reg, k,
             find_by_address(value.address, k.device_type, src, env, outcome))
    ELSE IF value.type = "device"
    THEN IF k.device_type # NoKind /\ k.device_type # EnumKind(value.dev.device_type)
         THEN Raised("ValueError", reg, src)
         ELSE set_device(reg, k, reconcile(value.dev, scan, src, env, ord))
    ELSE Raised("TypeError", reg, src)

\* DeviceManager.set
DeviceManager_set(reg, src, env, key, value, scan, ord, outcome) ==
    set_value(reg, src, env, getitem_key(key), value, scan, ord, outcome)

\* The loop of DeviceManager.get over the selected devices, in kind-map order;
\* get_step is one pass of it after the reconciliation `r` of device i.  The
\* loop stops at the first exception.
RECURSIVE get_loop(_, _, _, _, _, _)
get_step(devices, selected, scan, env, ord, r) ==
    IF r.err # "none"
    THEN [err |-> r.err, devices |-> [devices EXCEPT ![Head(selected)] = r.dev],
          src |-> r.src]
    ELSE get_loop([devices EXCEPT ![Head(selected)] = r.dev], Tail(selected), scan,
                  r.src, env, ord)

get_loop(devices, selected, scan, src, env, ord) ==
    IF selected = <<>> THEN [err |-> "none", devices |-> devices, src |-> src]
    ELSE get_step(devices, selected, scan, env, ord,
                  reconcile(devices[Head(selected)], scan, src, env, ord))

\* DeviceManager.get after DeviceDict.get selected `g`.
get_selected(reg, src, env, g, scan, ord) ==
    IF g.err # "none" THEN [err |-> g.err, devices |-> <<>>, src |-> src]
    ELSE get_loop(reg[g.name], g.selected, scan, src, env, ord)

\* The outcome of DeviceManager.get: `l` is the outcome of the loop.
get_result(reg, g, l) ==
    [err |-> l.err,
     reg |-> IF g.err # "none" THEN reg ELSE [reg EXCEPT ![g.name] = l.devices],
     src |-> l.src,
     stored |-> <<>>,
     at |-> 0,
     single |-> g.single]

\* DeviceManager.get
DeviceManager_get(reg, src, env, key, scan, ord) ==
    get_result(reg, DeviceDict_get(reg, key),
               get_selected(reg, src, env, DeviceDict_get(reg, key), scan, ord))

\* What DeviceManager.get returns in the outcome `r`: the device itself, or
\* the copy of the kind map.
Returned(r) ==
    IF r.err # "none" THEN "none" ELSE IF r.single THEN "device" ELSE "mapping"

\* DeviceManager.reset_addresses: every stored device is reset.
DeviceManager_reset_addresses(reg) ==
    [n \in DOMAIN reg |-> [i \in DOMAIN reg[n] |-> reset_addresses(reg[n][i])]]

\* What DeviceManager.reset_addresses does to the batch of `kind`: a stored
\* device that is an object of the batch is reset there as well.
reset_in_batch(batch, kind, entries) ==
    [i \in DOMAIN batch |->
        IF \E e \in entries : e.kind = kind /\ e.at = i
        THEN reset_addresses(batch[i]) ELSE batch[i]]

(***************************************************************************)
(* Persistence (device.py to_dict / from_dict, manager.py save / load)      *)
(*                                                                         *)
(* A serialized device is a function from the keys of its dictionary to    *)
(* their values.  The file is the JSON text of name -> kind name -> device: *)
(* a function from the names to the sequences of [kind, raw] in kind-map    *)
(* order.                                                                  *)
(***************************************************************************)

\* The JSON text for None.
JsonNull == "null"

\* The identifying attributes a to_dict of a subclass adds: those that are set.
OptionalKeys(d) ==
    IF d.device_type = USB
    THEN {k \in {"vendor_id", "product_id", "revision_id", "serial"} : d[k] # None}
    ELSE {k \in {"mac_address"} : d[k] # NoMac}

\* USBDevice.to_dict / LANDevice.to_dict; _old_addresses is not serialized.
to_dict(d) ==
    [k \in {"type", "address", "address_aliases"} \cup OptionalKeys(d) |->
        IF k = "type" THEN d.device_type ELSE d[k]]

\* json.dump / json.load of a serialized device: None is written as null,
\* strings and lists of strings as themselves, the keys in their order.
json_dump(dct) ==
    [k \in DOMAIN dct |-> IF k = "address" /\ dct[k] = None THEN JsonNull ELSE dct[k]]

json_load(text) ==
    [k \in DOMAIN text |-> IF k = "address" /\ text[k] = JsonNull THEN None ELSE text[k]]

\* dct[key] if key in dct else default
Field(dct, key, default) == IF key \in DOMAIN dct THEN dct[key] ELSE default

\* Device.from_dict as it would be if it never moved the addresses to the
\* history.
Device_from_dict_keeping_addresses(self, dct, old) ==
    [self EXCEPT !.address = Field(dct, "address", None),
                 !.address_aliases = Field(dct, "address_aliases", <<>>)]

\* Device.from_dict: the addresses of the dictionary are set and, with `old`,
\* moved to the history.
Device_from_dict(self, dct, old) ==
    IF old
    THEN reset_addresses([self EXCEPT
                             !.address = Field(dct, "address", None),
                             !.address_aliases = Field(dct, "address_aliases", <<>>)])
    ELSE [self EXCEPT !.address = Field(dct, "address", None),
                      !.address_aliases = Field(dct, "address_aliases", <<>>)]

\* from_dict as it would be if the subclasses did not override it.
from_dict_addresses_only(self, dct, old) ==
    [err |-> "none", dev |-> Device_from_dict(self, dct, old)]

\* USBDevice.from_dict / LANDevice.from_dict; the mac_address setter raises
\* TypeError for a string that is no hardware address.
from_dict(self, dct, old) ==
    IF self.device_type = USB
    THEN [err |-> "none",
          dev |-> [Device_from_dict(self, dct, old) EXCEPT
                      !.vendor_id = Field(dct, "vendor_id", None),
                      !.product_id = Field(dct, "product_id", None),
                      !.revision_id = Field(dct, "revision_id", None),
                      !.serial = Field(dct, "serial", None)]]
    ELSE IF "mac_address" \notin DOMAIN dct
    THEN [err |-> "none",
          dev |-> [Device_from_dict(self, dct, old) EXCEPT !.mac_address = NoMac]]
    ELSE [err |-> format_mac(dct.mac_address).err,
          dev |-> [Device_from_dict(self, dct, old) EXCEPT
                      !.mac_address = format_mac(dct.mac_address).val]]

\* DeviceManager.save: every device of every kind map as
\* dct[name][device_type.value] = device.to_dict(), written by json.dump.
DeviceManager_save(reg) ==
    [n \in DOMAIN reg |->
        [i \in DOMAIN reg[n] |->
            [kind |-> reg[n][i].device_type, raw |-> json_dump(to_dict(reg[n][i]))]]]

\* DeviceType(device_type_name).type(): a new device of the class of the kind.
NewDevice(kind) == IF kind = USB THEN USBDevice ELSE LANDevice

\* The progress of a load: its exception, the registry, the sources and the
\* <<name, kind>> stored so far.  load_stored is the end of one pass of the
\* inner loop, after self[name] = device returned `r`.
load_stored(st, name, r) ==
    IF r.err # "none" THEN [st EXCEPT !.err = r.err, !.src = r.src]
    ELSE [st EXCEPT !.reg = r.reg, !.src = r.src,
                    !.loaded = @ \cup {<<name, r.stored[1]>>}]

\* One pass of the inner loop of DeviceManager.load after from_dict(raw_device,
\* old=True) returned `made`: self[name] = device is set(name, device).
load_made(st, name, made, env, ord) ==
    IF made.err # "none" THEN [st EXCEPT !.err = made.err]
    ELSE load_stored(st, name,
             DeviceManager_set(st.reg, st.src, env, [name |-> name, kind |-> NoKind],
                               [type |-> "device", dev |-> made.dev], FALSE, ord,
                               [ok |-> FALSE, hosts |-> <<>>]))

\* The inner loop of DeviceManager.load over the kinds of one name; the
\* DeviceType of a kind name that is none raises ValueError.
RECURSIVE load_devices(_, _, _, _, _)
load_devices(st, name, entries, env, ord) ==
    IF entries = <<>> \/ st.err # "none" THEN st
    ELSE IF Lower(Head(entries).kind) \notin Range(DeviceTypes)
    THEN [st EXCEPT !.err = "ValueError"]
    ELSE load_devices(
             load_made(st, name,
                       from_dict(NewDevice(Lower(Head(entries).kind)),
                                 json_load(Head(entries).raw), TRUE),
                       env, ord),
             name, Tail(entries), env, ord)

\* The outer loop of DeviceManager.load over the names of the file.
RECURSIVE load_names(_, _, _, _, _)
load_names(st, names, dct, env, ord) ==
    IF names = {} \/ st.err # "none" THEN st
    ELSE load_names(load_devices(st, CHOOSE n \in names : TRUE,
                                 dct[CHOOSE n \in names : TRUE], env, ord),
                    names \ {CHOOSE n \in names : TRUE}, dct, env, ord)

\* A file whose text is no JSON document.
MalformedJson == [malformed |-> <<>>]

\* DeviceManager.load: self.clear() if asked, then json.load, which raises
\* JSONDecodeError (a ValueError) for a text that is no JSON document, then
\* the loops.
DeviceManager_load(reg, src, env, dct, clear, ord) ==
    IF "malformed" \in DOMAIN dct
    THEN [err |-> "ValueError", reg |-> IF clear THEN <<>> ELSE reg, src |-> src,
          loaded |-> {}]
    ELSE load_names([err |-> "none", reg |-> IF clear THEN <<>> ELSE reg, src |-> src,
                     loaded |-> {}],
                    DOMAIN dct, dct, env, ord)

(***************************************************************************)
(* Inputs of the model                                                     *)
(***************************************************************************)

\* Most devices a backend reports at once (bus devices, ARP lines).
MaxBatch == 1

\* Sequences over S of length at most n.
SeqsUpTo(S, n) == UNION {[1..m -> S] : m \in 0..n}

\* Identifying fields of the USB devices of the model.
IdA == [vendor_id |-> "v1", product_id |-> "p1", serial |-> "s1"]
IdB == [vendor_id |-> "v1", product_id |-> "p1", serial |-> "s2"]

\* Hardware addresses of the model in canonical form, and a spelling of the
\* first one that format_mac has to convert.
MacA == <<"0", "A", ":", "0", "0", ":", "0", "0", ":", "0", "0", ":", "0", "0", ":", "0", "1">>
MacALower == <<"0", "a", "-", "0", "0", "-", "0", "0", "-", "0", "0", "-", "0", "0", "-", "0", "1">>
MacB == <<"0", "B", ":", "0", "0", ":", "0", "0", ":", "0", "0", ":", "0", "0", ":", "0", "2">>

\* A USB device with the given identifying fields, address and aliases.
UsbAt(id, address, aliases) ==
    [USBDevice EXCEPT !.address = address, !.address_aliases = aliases,
                      !.vendor_id = id.vendor_id, !.product_id = id.product_id,
                      !.serial = id.serial]

\* A LAN device with the given hardware address (set through the mac_address
\* setter, which canonicalizes it), address and aliases.
LanAt(mac, address, aliases) ==
    [LANDevice EXCEPT !.address = address, !.address_aliases = aliases,
                      !.mac_address = format_mac(mac).val]

\* What _device_from_raw makes of the raw USB devices of the model: device A
\* on one port, or on the other port with a DEVNAME alias; the revision is
\* always read.
UsbObservations ==
    {[UsbAt(IdA, "a1", <<>>) EXCEPT !.revision_id = "r1"],
     [UsbAt(IdA, "a2", <<"a1">>) EXCEPT !.revision_id = "r1"]}

UsbBatches == SeqsUpTo(UsbObservations, MaxBatch)

\* The lines of "arp -n" the regular expression accepts: host A at either
\* address.
ArpLines == {[ip |-> a, mac |-> MacALower] : a \in Addresses}

ArpTables == SeqsUpTo(ArpLines, MaxBatch)

\* What the port scanner does when asked for an address nothing answers at:
\* it fails or it finds no host.
ProbeOutcomes == {[ok |-> FALSE, hosts |-> <<>>], [ok |-> TRUE, hosts |-> <<>>]}

\* The raw result of the port scanner for host A answering at the second
\* address (the "addresses" entry of a host: its mac and the ipv4/ipv6
\* entries present).
RawHosts == {[mac |-> MacA, ips |-> <<"a2">>]}

\* What the port scanner does in a scan of the probe: it fails, or it finds
\* no host or one.
ScanOutcomes ==
    ProbeOutcomes \cup {[ok |-> TRUE, hosts |-> <<h>>] : h \in RawHosts}

\* Devices a caller constructs and fills in: identified, with no address or
\* with current addresses, and no history.
UserDevices ==
    {UsbAt(IdA, None, <<>>), UsbAt(IdA, "a2", <<>>), UsbAt(IdB, "a1", <<"a2">>),
     LanAt(MacALower, None, <<>>), LanAt(MacA, "a2", <<"a1">>), LanAt(MacB, "a1", <<>>)}

\* The kinds a key may carry: none, a DeviceType member, a string.
KindKeys == {NoKind, EnumKind(USB), EnumKind(LAN), StrKind("usb"), StrKind("LAN")}

Keys == {[name |-> n, kind |-> k] : n \in Names, k \in KindKeys \cup {BadKey}}

(***************************************************************************)
(* The state machine                                                       *)
(*                                                                         *)
(* Every operation is atomic.  It leaves in `last` its arguments, the state  *)
(* before it and its outcome, until the caller takes the outcome (Return);  *)
(* the next operation starts after that.                                    *)
(***************************************************************************)

Sources ==
    [usb |-> usbDevices, lan |-> lanDevices, nmap |-> nmapResults, calls |-> <<>>,
     fresh |-> {}]

Backends == [bus |-> usbBus, arp |-> arpTable, mode |-> nmapMode]

\* `last` between operations.  key and scan are the arguments,
\* vtype the type of the value handed to set ("str", "device", "other"),
\* address that value when a string, arg the device handed to set or
\* find_by_device, pre the registry and the source caches before the
\* operation, err its exception, calls the _scan and probe calls it made, ref
\* the device handed to find_by_device after the call, ret the device
\* find_by_device returned and same whether that is the object handed over,
\* shape what get returned ("device" or "mapping").  For list_devices and
\* find_devices of a source, key.kind selects the source, scan is the rescan
\* flag, filters the keyword filters, ret the batch returned, and first holds
\* the batch of the listing before when this one repeats it.  For load, clear
\* is its flag and loaded the <<name, kind>> it stored.  For the calls on the
\* probe, thread is self._nmap_thread before the call, result the boolean
\* returned and alive whether the scan thread was alive when the call
\* returned.  For the end of a load_device_manager block, scan is
\* autosave, err the exception that ended the block, file the file before
\* and result whether the file was written.
NoOp ==
    [op |-> "none", key |-> [name |-> "", kind |-> NoKind], scan |-> FALSE,
     vtype |-> "none", address |-> None, arg |-> <<>>, shape |-> "none",
     filters |-> <<>>, first |-> <<>>, clear |-> FALSE, loaded |-> {},
     thread |-> [state |-> "none", call |-> 0], result |-> FALSE, alive |-> FALSE,
     file |-> <<>>,
     pre |-> [registry |-> <<>>, usb |-> <<>>, lan |-> <<>>, nmap |-> <<>>],
     err |-> "none", calls |-> <<>>, ref |-> <<>>, ret |-> <<>>, same |-> FALSE]

\* The file holds the empty mapping.
NoFile == <<>>

\* The caller is in no with-statement of load_device_manager; inside one,
\* state is "open" and autosave the argument given.
NoSession == [state |-> "none", autosave |-> FALSE]

\* NMAPWrapper.__init__: self._nmap_thread = None; nothing has been asked of
\* the probe.
NoThread == [state |-> "none", call |-> 0]

\* The caller is inside no call: ok and new are the outcome of the port
\* scanner and the raw results found missing in self._nmap_results (scan),
\* timeout whether wait_for_scan was given one and thread the thread it
\* found, err and devices what BaseLANDeviceScanner._scan computed
\* (list_devices).
NoLocal ==
    [ok |-> FALSE, new |-> <<>>, timeout |-> FALSE,
     thread |-> [state |-> "none", call |-> 0], err |-> "none", devices |-> <<>>]

\* No scan has ended yet.
NoCallbacks ==
    [scan |-> "none", call |-> 0, on_done |-> FALSE, err |-> "none", events |-> <<>>]

NoScans ==
    /\ nmapThread = NoThread
    /\ syncScan = "idle"
    /\ asyncCalls = <<>>
    /\ onDone = {}
    /\ scanLocal = NoLocal
    /\ callbacks = NoCallbacks

\* The setups of a run: the kinds whose backend reports devices (the other
\* backend reports nothing) and how the probe was constructed.
Setups == {<<{USB}, "absent">>, <<{LAN}, "invalid">>, <<{LAN}, "ok">>}

\* The caches DeviceManager.__init__ leaves: after the constructors of the
\* sources it calls scanner.list_devices(), whose _scan runs the _scan of
\* each kind on its empty cache before its extend raises (Aggregate_extend).
Constructed(env) ==
    BaseLAN_scan(LinuxUSB_scan([usb |-> <<>>, lan |-> <<>>, nmap |-> <<>>,
                                calls |-> <<>>, fresh |-> {}], env, FALSE),
                 env, FALSE).src

\* DeviceManager.__init__: the empty dictionary of DeviceDict.__init__, the
\* probe as NMAPWrapper.__init__ could build it, and the caches of the first
\* scan.  The TypeError that scan ends in is not followed: the manager is
\* taken as it stands once its fields are set.
Init ==
    /\ registry = <<>>
    /\ \E setup \in Setups : liveKinds = setup[1] /\ nmapMode = setup[2]
    /\ usbBus \in IF USB \in liveKinds THEN UsbBatches ELSE {<<>>}
    /\ arpTable \in IF LAN \in liveKinds THEN ArpTables ELSE {<<>>}
    /\ usbDevices = Constructed([bus |-> usbBus, arp |-> arpTable, mode |-> nmapMode]).usb
    /\ lanDevices = Constructed([bus |-> usbBus, arp |-> arpTable, mode |-> nmapMode]).lan
    /\ nmapResults = <<>>
    /\ shared = {}
    /\ file = NoFile
    /\ NoScans
    /\ session = NoSession
    /\ last = NoOp

SourcesBecome(src) ==
    /\ usbDevices' = src.usb
    /\ lanDevices' = src.lan
    /\ nmapResults' = src.nmap

\* The record of an operation that starts in the current state.
Started(op) ==
    [NoOp EXCEPT !.op = op,
                 !.pre = [registry |-> registry, usb |-> usbDevices,
                          lan |-> lanDevices, nmap |-> nmapResults]]

\* The caller has taken the outcome of the operation before.
Running == last = NoOp

\* The entries that share their device with a batch after an operation that
\* rebuilt the batches of the kinds `fresh`: a rebuilt batch holds new
\* objects.
StillShared(fresh) == {e \in shared : e.kind \notin fresh}

\* The outcome `r` of a registry operation becomes the state; `record` holds
\* the arguments.
Outcome(record, r) ==
    /\ registry' = r.reg
    /\ SourcesBecome(r.src)
    /\ shared' =
          {e \in StillShared(r.src.fresh) :
              r.stored = <<>> \/ e.name # record.key.name \/ e.kind # r.stored[1]}
          \cup (IF r.at = 0 THEN {}
                ELSE {[name |-> record.key.name, kind |-> r.stored[1], at |-> r.at]})
    /\ last' = [record EXCEPT !.err = r.err, !.calls = r.src.calls]
    /\ UNCHANGED <<nmapMode, liveKinds, file, session, probeVars, usbBus, arpTable>>

\* manager[key] = address
SetAddress ==
    /\ Running
    /\ \E key \in Keys, address \in Addresses, outcome \in ProbeOutcomes :
        Outcome([Started("set") EXCEPT !.key = key, !.vtype = "str",
                                       !.address = address],
                DeviceManager_set(registry, Sources, Backends, key,
                                  [type |-> "str", address |-> address],
                                  FALSE, <<>>, outcome))

\* manager.set(key, device, scan) / manager[key] = device
SetDevice ==
    /\ Running
    /\ \E key \in Keys, d \in UserDevices, scan \in BOOLEAN, ord \in HashOrders :
        Outcome([Started("set") EXCEPT !.key = key, !.scan = scan,
                                       !.vtype = "device", !.arg = <<d>>],
                DeviceManager_set(registry, Sources, Backends, key,
                                  [type |-> "device", dev |-> d],
                                  scan, ord, [ok |-> FALSE, hosts |-> <<>>]))

\* manager[key] = value for a value that is neither a string nor a Device
SetOther ==
    /\ Running
    /\ \E key \in Keys :
        Outcome([Started("set") EXCEPT !.key = key, !.vtype = "other"],
                DeviceManager_set(registry, Sources, Backends, key,
                                  [type |-> "other"],
                                  FALSE, <<>>, [ok |-> FALSE, hosts |-> <<>>]))

\* manager.get(key, scan) / manager[key]
Get ==
    /\ Running
    /\ \E key \in Keys, scan \in BOOLEAN, ord \in HashOrders :
        Outcome([Started("get") EXCEPT
                    !.key = key, !.scan = scan,
                    !.shape = Returned(DeviceManager_get(registry, Sources, Backends,
                                                         key, scan, ord))],
                DeviceManager_get(registry, Sources, Backends, key, scan, ord))

\* manager.remove(key) / del manager[key]
Remove ==
    /\ Running
    /\ \E key \in Keys :
        /\ registry' = DeviceDict_remove(registry, key).reg
        /\ shared' = {e \in shared :
                         /\ e.name \in DOMAIN registry'
                         /\ KindIndex(registry'[e.name], e.kind) # 0}
        /\ last' = [Started("remove") EXCEPT
                        !.key = key, !.err = DeviceDict_remove(registry, key).err]
        /\ UNCHANGED <<usbDevices, lanDevices, nmapResults, nmapMode, liveKinds,
                       file, session, probeVars, usbBus, arpTable>>

\* manager.reset_addresses()
ResetAddresses ==
    /\ Running
    /\ registry' = DeviceManager_reset_addresses(registry)
    /\ usbDevices' = reset_in_batch(usbDevices, USB, shared)
    /\ lanDevices' = reset_in_batch(lanDevices, LAN, shared)
    /\ last' = Started("reset_addresses")
    /\ UNCHANGED <<nmapResults, nmapMode, liveKinds, file, session, probeVars, usbBus,
                   arpTable, shared>>

\* The outcome `f` of find_by_device becomes the state; `slot` is where the
\* registry holds the device handed over, <<>> if it does not.
Searched(record, slot, f) ==
    /\ registry' = IF slot = <<>> THEN registry
                   ELSE [registry EXCEPT ![slot[1]][slot[2]] = f.ref]
    /\ SourcesBecome(f.src)
    /\ shared' = StillShared(f.src.fresh)
    /\ last' = [record EXCEPT !.err = f.err, !.calls = f.src.calls,
                              !.ref = <<f.ref>>,
                              !.ret = IF f.err = "none" /\ f.found
                                      THEN <<f.dev>> ELSE <<>>,
                              !.same = f.err = "none" /\ f.is_ref]
    /\ UNCHANGED <<nmapMode, liveKinds, file, session, probeVars, usbBus, arpTable>>

\* manager.find_by_device(device, scan) for a device the caller constructed.
FindByDevice ==
    /\ Running
    /\ \E d \in UserDevices, scan \in BOOLEAN, ord \in HashOrders :
        Searched([Started("find_by_device") EXCEPT !.scan = scan, !.arg = <<d>>],
                 <<>>, find_by_device(d, scan, Sources, Backends, ord))

\* manager.find_by_device(manager[name, kind], scan): the device handed over
\* is the stored object, so what the call does to it is done to the registry.
FindByStoredDevice ==
    /\ Running
    /\ \E n \in DOMAIN registry, scan \in BOOLEAN, ord \in HashOrders :
       \E i \in DOMAIN registry[n] :
        Searched([Started("find_by_device") EXCEPT
                     !.key = [name |-> n,
                              kind |-> EnumKind(registry[n][i].device_type)],
                     !.scan = scan, !.arg = <<registry[n][i]>>],
                 <<n, i>>, find_by_device(registry[n][i], scan, Sources, Backends, ord))

\* The caller takes the outcome of the operation.
Return ==
    /\ ~Running
    /\ last' = NoOp
    /\ UNCHANGED <<registry, usbDevices, lanDevices, nmapResults, nmapMode, liveKinds,
                   file, session, probeVars, usbBus, arpTable, shared>>

\* Devices are plugged in and out.
UsbBusChange ==
    /\ USB \in liveKinds
    /\ Running
    /\ usbBus' \in UsbBatches \ {usbBus}
    /\ UNCHANGED <<registry, usbDevices, lanDevices, nmapResults, nmapMode, liveKinds,
                   file, session, probeVars, arpTable, shared, last>>

\* The neighbour table changes.
ArpTableChange ==
    /\ LAN \in liveKinds
    /\ Running
    /\ arpTable' \in ArpTables \ {arpTable}
    /\ UNCHANGED <<registry, usbDevices, lanDevices, nmapResults, nmapMode, liveKinds,
                   file, session, probeVars, usbBus, shared, last>>

Next ==
    \/ SetAddress
    \/ SetDevice
    \/ SetOther
    \/ Get
    \/ Remove
    \/ ResetAddresses
    \/ FindByDevice
    \/ FindByStoredDevice
    \/ Return
    \/ UsbBusChange
    \/ ArpTableChange

Spec == Init /\ [][Next]_vars

(***************************************************************************)
(* The registry and its file                                               *)
(*                                                                         *)
(* A manager that is loaded from and saved to a file an earlier session     *)
(* left, while the backends change.                                        *)
(***************************************************************************)

\* Devices as a registry holds them when it is saved: reported at one address
\* or two, or without a current address.
SavedDevices ==
    {[UsbAt(IdA, "a1", <<>>) EXCEPT !.revision_id = "r1"],
     [UsbAt(IdA, "a2", <<"a1">>) EXCEPT !.revision_id = "r1"],
     UsbAt(IdA, None, <<>>),
     LanAt(MacA, "a1", <<>>), LanAt(MacA, "a2", <<"a1">>)}

\* The registries an earlier session saved: nothing, or one or two kinds
\* under the name.
SavedRegistries ==
    {<<>>}
    \cup {[n \in Names |-> ds] :
            ds \in {s \in SeqsUpTo(SavedDevices, Len(DeviceTypes)) :
                       /\ Len(s) > 0
                       /\ Cardinality({s[i].device_type : i \in DOMAIN s}) = Len(s)}}

SavedFiles == {DeviceManager_save(reg) : reg \in SavedRegistries}

\* load_device_manager up to its yield: a new DeviceManager, its sources
\* left by the first scan as in Init, loads the file.
load_device_manager_enter(env, dct, ord) ==
    DeviceManager_load(<<>>,
                       [usb |-> Constructed(env).usb, lan |-> Constructed(env).lan,
                        nmap |-> <<>>, calls |-> <<>>, fresh |-> {}],
                       env, dct, TRUE, ord)

\* load_device_manager as it would be with the save in a finally clause.
load_device_manager_exit_finally(reg, f, autosave, raised) ==
    IF autosave THEN [file |-> DeviceManager_save(reg), written |-> TRUE]
    ELSE [file |-> f, written |-> FALSE]

\* load_device_manager after its yield, `f` being the file then: an
\* exception of the with-block is thrown into the generator at the yield and
\* leaves it; otherwise the manager is saved if autosave is set.
load_device_manager_exit(reg, f, autosave, raised) ==
    IF autosave /\ ~raised THEN [file |-> DeviceManager_save(reg), written |-> TRUE]
    ELSE [file |-> f, written |-> FALSE]

\* The setups here: either backend or both report devices.
PersistSetups == Setups \cup {<<{USB, LAN}, "ok">>}

\* DeviceManager.__init__ as in Init, beside the file of an earlier session.
InitPersist ==
    /\ registry = <<>>
    /\ \E setup \in PersistSetups : liveKinds = setup[1] /\ nmapMode = setup[2]
    /\ usbBus \in IF USB \in liveKinds THEN UsbBatches ELSE {<<>>}
    /\ arpTable \in IF LAN \in liveKinds THEN ArpTables ELSE {<<>>}
    /\ usbDevices = Constructed([bus |-> usbBus, arp |-> arpTable, mode |-> nmapMode]).usb
    /\ lanDevices = Constructed([bus |-> usbBus, arp |-> arpTable, mode |-> nmapMode]).lan
    /\ nmapResults = <<>>
    /\ shared = {}
    /\ file \in SavedFiles
    /\ NoScans
    /\ session = NoSession
    /\ last = NoOp

\* The outcome `r` of a load becomes the state.
Loaded(record, r) ==
    /\ registry' = r.reg
    /\ SourcesBecome(r.src)
    /\ shared' = IF record.clear THEN {}
                 ELSE {e \in StillShared(r.src.fresh) : <<e.name, e.kind>> \notin r.loaded}
    /\ last' = [record EXCEPT !.err = r.err, !.calls = r.src.calls, !.loaded = r.loaded]
    /\ UNCHANGED <<nmapMode, liveKinds, file, session, probeVars, usbBus, arpTable>>

\* manager.load(file, clear)
Load ==
    /\ Running
    /\ \E clear \in BOOLEAN, ord \in HashOrders :
        Loaded([Started("load") EXCEPT !.clear = clear],
               DeviceManager_load(registry, Sources, Backends, file, clear, ord))

\* manager.save(file)
Save ==
    /\ Running
    /\ file' = DeviceManager_save(registry)
    /\ last' = Started("save")
    /\ UNCHANGED <<registry, usbDevices, lanDevices, nmapResults, nmapMode, liveKinds,
                   session, probeVars, usbBus, arpTable, shared>>

\* The outcome `r` of load_device_manager up to its yield becomes the state:
\* the manager of the block is the new one, unless the load raised.
Entered(record, autosave, r) ==
    /\ registry' = r.reg
    /\ SourcesBecome(r.src)
    /\ shared' = {}
    /\ session' = IF r.err = "none" THEN [state |-> "open", autosave |-> autosave]
                  ELSE session
    /\ last' = [record EXCEPT !.err = r.err, !.calls = r.src.calls, !.loaded = r.loaded]
    /\ UNCHANGED <<nmapMode, liveKinds, file, probeVars, usbBus, arpTable>>

\* with load_device_manager(filename, autosave) as manager:
EnterManager ==
    /\ Running
    /\ session.state = "none"
    /\ \E autosave \in BOOLEAN, ord \in HashOrders :
        Entered([Started("load_device_manager") EXCEPT
                    !.clear = TRUE, !.scan = autosave, !.file = file],
                autosave, load_device_manager_enter(Backends, file, ord))

\* The with-block ends, normally or by an exception.
ExitManager ==
    /\ Running
    /\ session.state = "open"
    /\ \E raised \in BOOLEAN :
        /\ file' = load_device_manager_exit(registry, file, session.autosave, raised).file
        /\ last' = [Started("exit") EXCEPT
                       !.scan = session.autosave,
                       !.err = IF raised THEN "Exception" ELSE "none",
                       !.file = file,
                       !.result = load_device_manager_exit(registry, file,
                                                          session.autosave, raised).written]
    /\ session' = NoSession
    /\ UNCHANGED <<registry, usbDevices, lanDevices, nmapResults, nmapMode, liveKinds,
                   probeVars, usbBus, arpTable, shared>>

NextPersist ==
    \/ Load
    \/ Save
    \/ ResetAddresses
    \/ Return
    \/ UsbBusChange
    \/ ArpTableChange

SpecPersist == InitPersist /\ [][NextPersist]_vars

\* The with-statements of load_device_manager on the file, one after the
\* other; inside a block the manager's addresses are reset and it is saved.
NextSession ==
    \/ EnterManager
    \/ ExitManager
    \/ ResetAddresses
    \/ Save
    \/ Return
    \/ UsbBusChange
    \/ ArpTableChange

SpecSession == InitPersist /\ [][NextSession]_vars

(***************************************************************************)
(* The probe and its threads                                               *)
(*                                                                         *)
(* One NMAPWrapper of a LAN source, one caller thread and the threads       *)
(* scan_async starts.  The caller's calls are atomic except scan (Scan,     *)
(* ScanChecks, ScanReturns), wait_for_scan while a thread is alive          *)
(* (WaitForScan, WaitReturns) and a list_devices that scans (ListLan,       *)
(* ListReturns); a scan thread runs from ThreadRuns to ThreadEnds.  The     *)
(* neighbour table is the one of Init throughout.                           *)
(***************************************************************************)

\* Most scan_async calls of a run.
MaxCalls == 3

\* How the port scanner was built: not at all (self._nmap is None) or working.
ProbeModes == {"invalid", "ok"}

\* BaseLANDeviceScanner.__init__ with its NMAPWrapper: nothing cached, no
\* thread.
InitProbe ==
    /\ registry = <<>>
    /\ liveKinds = {LAN}
    /\ nmapMode \in ProbeModes
    /\ usbBus = <<>>
    /\ arpTable \in ArpTables
    /\ usbDevices = <<>>
    /\ lanDevices = <<>>
    /\ nmapResults = <<>>
    /\ shared = {}
    /\ file = NoFile
    /\ NoScans
    /\ session = NoSession
    /\ last = NoOp

\* The caller is not inside a call.
CallerIdle == Running /\ syncScan = "idle"

\* What no step of the probe changes.
ProbeFixed ==
    <<registry, nmapMode, liveKinds, file, session, usbBus, arpTable, shared>>

\* nmap.scan_async(hosts, on_done) / nmap.scan_async(hosts)
ScanAsync ==
    /\ CallerIdle
    /\ Len(asyncCalls) < MaxCalls
    /\ \E on_done \in BOOLEAN :
        /\ nmapThread' = NMAP_scan_async(nmapThread, Len(asyncCalls) + 1).thread
        /\ asyncCalls' =
              Append(asyncCalls,
                     [ret |-> NMAP_scan_async(nmapThread, Len(asyncCalls) + 1).ret,
                      on_done |-> on_done])
    /\ last' = [Started("scan_async") EXCEPT
                    !.thread = nmapThread,
                    !.result = NMAP_scan_async(nmapThread, Len(asyncCalls) + 1).ret]
    /\ UNCHANGED <<ProbeFixed, usbDevices, lanDevices, nmapResults, syncScan, onDone,
                   scanLocal, callbacks>>

\* nmap.is_scan_alive()
IsScanAlive ==
    /\ CallerIdle
    /\ nmapThread' = NMAP_is_scan_alive(nmapThread).thread
    /\ last' = [Started("is_scan_alive") EXCEPT
                    !.thread = nmapThread,
                    !.result = NMAP_is_scan_alive(nmapThread).ret]
    /\ UNCHANGED <<ProbeFixed, usbDevices, lanDevices, nmapResults, syncScan,
                   asyncCalls, onDone, scanLocal, callbacks>>

\* nmap.wait_for_scan(timeout) / nmap.wait_for_scan(): with no scan thread
\* alive it returns at once, else the caller enters join.
WaitForScan ==
    /\ CallerIdle
    /\ IF NMAP_is_scan_alive(nmapThread).ret
       THEN /\ \E timeout \in BOOLEAN :
                 scanLocal' = [NoLocal EXCEPT !.timeout = timeout, !.thread = nmapThread]
            /\ syncScan' = "waiting"
            /\ UNCHANGED <<nmapThread, last>>
       ELSE /\ nmapThread' = NMAP_wait_for_scan_idle(nmapThread).thread
            /\ last' = [Started("wait_for_scan") EXCEPT
                            !.thread = nmapThread,
                            !.result = NMAP_wait_for_scan_idle(nmapThread).ret,
                            !.alive = is_alive(nmapThread)]
            /\ UNCHANGED <<syncScan, scanLocal>>
    /\ UNCHANGED <<ProbeFixed, usbDevices, lanDevices, nmapResults, asyncCalls, onDone,
                   callbacks>>

\* join returns, because the thread has ended or because the timeout has
\* elapsed, and wait_for_scan returns.
WaitReturns ==
    /\ syncScan = "waiting"
    /\ ~is_alive(nmapThread) \/ scanLocal.timeout
    /\ nmapThread' = NMAP_wait_for_scan_joined(nmapThread).thread
    /\ last' = [Started("wait_for_scan") EXCEPT
                    !.thread = scanLocal.thread,
                    !.scan = scanLocal.timeout,
                    !.result = NMAP_wait_for_scan_joined(nmapThread).ret,
                    !.alive = is_alive(nmapThread)]
    /\ syncScan' = "idle"
    /\ scanLocal' = NoLocal
    /\ UNCHANGED <<ProbeFixed, usbDevices, lanDevices, nmapResults, asyncCalls, onDone,
                   callbacks>>

\* nmap.clear_devices()
ClearDevices ==
    /\ CallerIdle
    /\ nmapResults' = <<>>
    /\ last' = Started("clear_devices")
    /\ UNCHANGED <<ProbeFixed, usbDevices, lanDevices, probeVars>>

\* nmap.devices
Devices ==
    /\ CallerIdle
    /\ last' = [Started("devices") EXCEPT
                    !.err = nmap_devices(nmapResults).err,
                    !.ret = nmap_devices(nmapResults).devices]
    /\ UNCHANGED <<ProbeFixed, usbDevices, lanDevices, nmapResults, probeVars>>

\* nmap.scan(hosts) is called: with a port scanner the caller enters
\* self._nmap.scan, without one _scan returns False at once.
Scan ==
    /\ CallerIdle
    /\ syncScan' = IF nmapMode = "invalid" THEN "idle" ELSE "scanning"
    /\ last' = IF nmapMode = "invalid"
               THEN [Started("scan") EXCEPT !.thread = nmapThread] ELSE last
    /\ callbacks' = IF nmapMode = "invalid"
                    THEN [NoCallbacks EXCEPT !.scan = "scan"] ELSE callbacks
    /\ UNCHANGED <<ProbeFixed, usbDevices, lanDevices, nmapResults, nmapThread,
                   asyncCalls, onDone, scanLocal>>

\* The port scanner returns to the caller of nmap.scan(hosts), and the caller
\* looks the hosts up in self._nmap_results.
ScanChecks ==
    /\ syncScan = "scanning"
    /\ \E outcome \in ScanOutcomes :
          scanLocal' = [NoLocal EXCEPT
                           !.ok = outcome.ok,
                           !.new = Unstored(nmapResults, outcome.hosts)]
    /\ syncScan' = "checked"
    /\ UNCHANGED <<ProbeFixed, usbDevices, lanDevices, nmapResults, nmapThread,
                   asyncCalls, onDone, callbacks, last>>

\* The end `r` of NMAPWrapper._scan in either thread: the results are
\* appended and the LAN source, notified, scans again.
Scanned(r) ==
    /\ SourcesBecome(r.src)
    /\ UNCHANGED <<ProbeFixed, asyncCalls>>

\* The caller appends the results found missing, the finally block runs and
\* nmap.scan returns.
ScanReturns ==
    /\ syncScan = "checked"
    /\ Scanned(NMAP_scan_append(Sources, Backends, scanLocal.ok, scanLocal.new))
    /\ last' = [Started("scan") EXCEPT
                    !.thread = nmapThread,
                    !.result = scanLocal.ok,
                    !.err = NMAP_scan_append(Sources, Backends, scanLocal.ok,
                                             scanLocal.new).err]
    /\ callbacks' =
          [NoCallbacks EXCEPT
              !.scan = "scan",
              !.err = NMAP_scan_append(Sources, Backends, scanLocal.ok,
                                       scanLocal.new).err,
              !.events = Invoked(NMAP_scan_append(Sources, Backends, scanLocal.ok,
                                                  scanLocal.new), Backends, FALSE)]
    /\ syncScan' = "idle"
    /\ scanLocal' = NoLocal
    /\ UNCHANGED <<nmapThread, onDone>>

\* The scan thread enters _scan: with a port scanner it calls
\* self._nmap.scan, without one it returns False and ends.
ThreadRuns ==
    /\ nmapThread.state = "started"
    /\ nmapThread' = [nmapThread EXCEPT
                         !.state = IF nmapMode = "invalid" THEN "finished"
                                   ELSE "scanning"]
    /\ callbacks' = IF nmapMode = "invalid"
                    THEN [NoCallbacks EXCEPT
                             !.scan = "scan_async", !.call = nmapThread.call,
                             !.on_done = asyncCalls[nmapThread.call].on_done]
                    ELSE callbacks
    /\ UNCHANGED <<ProbeFixed, usbDevices, lanDevices, nmapResults, syncScan,
                   asyncCalls, onDone, scanLocal, last>>

\* The port scanner returns in the scan thread: the new results are
\* appended, the LAN source is notified, on_done is called if one was given,
\* and the thread ends.  An exception of the notified scan ends the thread
\* before on_done.  (The steps of the thread are taken as one: this leaves
\* interleavings with the caller out and adds none.)
ThreadEnds ==
    /\ nmapThread.state = "scanning"
    /\ \E outcome \in ScanOutcomes :
        /\ Scanned(NMAP_scan(Sources, Backends, outcome))
        /\ onDone' = IF /\ NMAP_scan(Sources, Backends, outcome).err = "none"
                        /\ asyncCalls[nmapThread.call].on_done
                     THEN onDone \cup {nmapThread.call} ELSE onDone
        /\ callbacks' =
              [scan |-> "scan_async", call |-> nmapThread.call,
               on_done |-> asyncCalls[nmapThread.call].on_done,
               err |-> NMAP_scan(Sources, Backends, outcome).err,
               events |-> Invoked(NMAP_scan(Sources, Backends, outcome), Backends,
                                  asyncCalls[nmapThread.call].on_done)]
    /\ nmapThread' = [nmapThread EXCEPT !.state = "finished"]
    /\ UNCHANGED <<syncScan, scanLocal, last>>

\* scanner[DeviceType.LAN].list_devices(rescan) is called: a cached batch is
\* returned at once; otherwise BaseLANDeviceScanner._scan reads the ARP cache
\* and self.nmap.devices and folds them.
ListLan ==
    /\ CallerIdle
    /\ \E rescan \in BOOLEAN :
          IF Len(lanDevices) > 0 /\ ~rescan
          THEN /\ last' = [Started("list_devices") EXCEPT
                              !.key = [name |-> "", kind |-> EnumKind(LAN)],
                              !.scan = rescan, !.ret = lanDevices]
               /\ UNCHANGED <<syncScan, scanLocal>>
          ELSE /\ scanLocal' =
                     [NoLocal EXCEPT
                         !.err = BaseLAN_scan(Sources, Backends, rescan).err,
                         !.devices = BaseLAN_scan(Sources, Backends, rescan).src.lan]
               /\ syncScan' = "listing"
               /\ UNCHANGED last
    /\ UNCHANGED <<ProbeFixed, usbDevices, lanDevices, nmapResults, nmapThread,
                   asyncCalls, onDone, callbacks>>

\* BaseLANDeviceScanner._scan assigns self._devices, unless the fold raised,
\* and list_devices returns tuple(self._devices).
ListReturns ==
    /\ syncScan = "listing"
    /\ lanDevices' = IF scanLocal.err = "none" THEN scanLocal.devices ELSE lanDevices
    /\ last' = [Started("list_devices") EXCEPT
                    !.key = [name |-> "", kind |-> EnumKind(LAN)],
                    !.scan = TRUE,
                    !.err = scanLocal.err,
                    !.ret = IF scanLocal.err = "none" THEN scanLocal.devices ELSE <<>>]
    /\ syncScan' = "idle"
    /\ scanLocal' = NoLocal
    /\ UNCHANGED <<ProbeFixed, usbDevices, nmapResults, nmapThread, asyncCalls, onDone,
                   callbacks>>

NextProbe ==
    \/ ScanAsync
    \/ IsScanAlive
    \/ WaitForScan
    \/ WaitReturns
    \/ ClearDevices
    \/ Devices
    \/ Scan
    \/ ScanChecks
    \/ ScanReturns
    \/ ThreadRuns
    \/ ThreadEnds
    \/ ListLan
    \/ ListReturns
    \/ Return

SpecProbe == InitProbe /\ [][NextProbe]_vars

(***************************************************************************)
(* The values of a device                                                  *)
(*                                                                         *)
(* format_mac, the mac_address setter and == applied to strings and         *)
(* devices of the caller; the LANDevice whose mac_address is set is the one  *)
(* stored under the name of the model.                                      *)
(***************************************************************************)

\* The octets the strings below repeat, as pairs of characters.
Octets == {<<"0", "a">>, <<"A", "f">>, <<"9", "9">>, <<"b", "C">>}

\* The string of MacOctets octets `o` separated by `sep`.
Spelled(o, sep) ==
    [i \in 1..(3 * MacOctets - 1) |->
        IF i % 3 = 0 THEN sep ELSE IF i % 3 = 1 THEN o[1] ELSE o[2]]

\* Strings of six octets, with one separator throughout and with mixed ones.
OctetStrings ==
    {Spelled(o, sep) : o \in Octets, sep \in MacSeparators}
    \cup {[Spelled(o, ":") EXCEPT ![3] = "-", ![6] = "."] : o \in Octets}

\* Strings that are no six octets: a character more (a digit, a newline), an
\* octet less, no separators, a letter that is no hex digit, a separator
\* that is none.
OtherStrings ==
    UNION {{Append(s, "0"), Append(s, "\n"), SubSeq(s, 1, 3 * MacOctets - 3),
            SelectSeq(s, LAMBDA c : c \in HexDigits),
            [s EXCEPT ![1] = "G"], [s EXCEPT ![3] = "_"]} : s \in OctetStrings}

MacStrings == OctetStrings \cup OtherStrings

\* The devices compared: the devices of the caller, and others that differ
\* from one of them in the addresses or in the revision only.
ComparedDevices ==
    UserDevices
    \cup {UsbAt(IdA, "a1", <<>>), [UsbAt(IdA, None, <<>>) EXCEPT !.revision_id = "r1"],
          LanAt(MacA, None, <<>>), LanAt(MacB, None, <<>>)}

\* A registry with one LANDevice, new or with a hardware address.
InitValues ==
    /\ \E mac \in {NoMac, MacB} :
          registry = [n \in Names |-> <<[LANDevice EXCEPT !.mac_address = mac]>>]
    /\ liveKinds = {USB}
    /\ nmapMode = "absent"
    /\ usbBus = <<>>
    /\ arpTable = <<>>
    /\ usbDevices = <<>>
    /\ lanDevices = <<>>
    /\ nmapResults = <<>>
    /\ shared = {}
    /\ file = NoFile
    /\ NoScans
    /\ session = NoSession
    /\ last = NoOp

\* LANDevice.format_mac(mac_address); the record keeps the string in filters
\* and the string returned in ret.
FormatMac ==
    /\ Running
    /\ \E s \in MacStrings :
          last' = [Started("format_mac") EXCEPT
                      !.filters = s, !.err = format_mac(s).err, !.ret = format_mac(s).val]
    /\ UNCHANGED <<registry, usbDevices, lanDevices, nmapResults, nmapMode, liveKinds,
                   file, session, probeVars, usbBus, arpTable, shared>>

\* manager[name, DeviceType.LAN].mac_address = mac_address: the setter stores
\* what format_mac returns, and nothing when it raises.
SetMacAddress ==
    /\ Running
    /\ \E n \in DOMAIN registry, s \in MacStrings :
        /\ registry' =
              IF format_mac(s).err # "none" THEN registry
              ELSE [registry EXCEPT ![n][1].mac_address = format_mac(s).val]
        /\ last' = [Started("mac_address") EXCEPT
                       !.key = [name |-> n, kind |-> EnumKind(LAN)],
                       !.filters = s, !.err = format_mac(s).err]
    /\ UNCHANGED <<usbDevices, lanDevices, nmapResults, nmapMode, liveKinds,
                   file, session, probeVars, usbBus, arpTable, shared>>

\* a == b; the record keeps a in arg, b in ref and the value in same.
Equals ==
    /\ Running
    /\ \E a, b \in ComparedDevices :
          last' = [Started("eq") EXCEPT !.arg = <<a>>, !.ref = <<b>>, !.same = eq(a, b)]
    /\ UNCHANGED <<registry, usbDevices, lanDevices, nmapResults, nmapMode, liveKinds,
                   file, session, probeVars, usbBus, arpTable, shared>>

\* Most elements of an iterable assigned to address_aliases.
MaxAliases == 2

\* The values assigned to address_aliases: None, a string, a value that is
\* no iterable, and the iterables of strings, None and numbers.
AliasValues ==
    {[type |-> "none", items |-> <<>>], [type |-> "other", items |-> <<>>]}
    \cup {[type |-> "str", items |-> <<a>>] : a \in Addresses}
    \cup {[type |-> "iter", items |-> items] :
             items \in SeqsUpTo(Addresses \cup {None, Number}, MaxAliases)}

\* manager[name, DeviceType.LAN].address_aliases = value; the record keeps
\* the kind of value in vtype and its elements in filters.
SetAddressAliases ==
    /\ Running
    /\ \E n \in DOMAIN registry, value \in AliasValues :
        /\ registry' = [registry EXCEPT
                           ![n][1] = address_aliases_setter(registry[n][1], value).dev]
        /\ last' = [Started("address_aliases") EXCEPT
                       !.key = [name |-> n, kind |-> EnumKind(LAN)],
                       !.vtype = value.type, !.filters = value.items,
                       !.err = address_aliases_setter(registry[n][1], value).err]
    /\ UNCHANGED <<usbDevices, lanDevices, nmapResults, nmapMode, liveKinds,
                   file, session, probeVars, usbBus, arpTable, shared>>

NextValues ==
    \/ FormatMac
    \/ SetMacAddress
    \/ SetAddressAliases
    \/ Equals
    \/ Return

SpecValues == InitValues /\ [][NextValues]_vars

(***************************************************************************)
(* The discovery sources on their own                                      *)
(*                                                                         *)
(* A DeviceScanner that a caller lists and searches directly, one call      *)
(* after the other.  `last` keeps the call before until the next one.       *)
(***************************************************************************)

\* Longest enumeration of a backend here.
MaxScan == 2

\* What _device_from_raw makes of the raw USB devices here: those above and a
\* device that reports no ID_SERIAL_SHORT.
ScanUsbObservations ==
    UsbObservations
    \cup {[UsbAt([IdA EXCEPT !.serial = None], "a2", <<>>) EXCEPT !.revision_id = "r1"]}

ScanUsbBatches == SeqsUpTo(ScanUsbObservations, MaxScan)

\* The lines of "arp -n" here: host A at either address, host B at the first.
ScanArpLines == ArpLines \cup {[ip |-> "a1", mac |-> MacB]}

ScanArpTables == SeqsUpTo(ScanArpLines, MaxScan)

\* A string that is no hardware address.
NotAMac == <<"0", "A">>

\* The keyword filters handed to find_devices.
ScanFilters ==
    {<<>>,
     [address |-> "a1"],
     [mac_address |-> MacALower],
     [mac_address |-> MacB, address |-> "a1"],
     [mac_address |-> NotAMac],
     [serial |-> None],
     [vendor_id |-> "v1", product_id |-> "p1", serial |-> "s1"],
     [invalid_param |-> "test"]}

\* The sources a caller selects: scanner, scanner[DeviceType.USB],
\* scanner[DeviceType.LAN].
SourceKeys == {NoKind, EnumKind(USB), EnumKind(LAN)}

\* The setups here: one backend reports devices, the probe is missing or built.
ScanSetups == {<<{USB}, "absent">>, <<{LAN}, "ok">>}

\* DeviceScanner.__init__: every cache is empty, nothing is stored.
InitSources ==
    /\ registry = <<>>
    /\ \E setup \in ScanSetups : liveKinds = setup[1] /\ nmapMode = setup[2]
    /\ usbBus \in IF USB \in liveKinds THEN ScanUsbBatches ELSE {<<>>}
    /\ arpTable \in IF LAN \in liveKinds THEN ScanArpTables ELSE {<<>>}
    /\ usbDevices = <<>>
    /\ lanDevices = <<>>
    /\ nmapResults = <<>>
    /\ shared = {}
    /\ file = NoFile
    /\ NoScans
    /\ session = NoSession
    /\ last = NoOp

\* A backend was asked for its devices during the calls logged.
Probed(calls) == \E i \in DOMAIN calls : calls[i][1] \in {"pyudev", "arp"}

\* The batch of the call before, when that was list_devices(rescan=False) on
\* `source`, returned, and either asked the backend or itself repeated such a
\* call.
Repeated(source) ==
    IF /\ last.op = "list_devices" /\ ~last.scan /\ last.key.kind = source
       /\ last.err = "none"
       /\ (Probed(last.calls) \/ last.first # <<>>)
    THEN <<last.ret>> ELSE <<>>

\* The outcome `r` of a call on a source becomes the state.
Queried(record, r) ==
    /\ SourcesBecome(r.src)
    /\ last' = [record EXCEPT !.err = r.err, !.calls = r.src.calls, !.ret = r.devices]
    /\ UNCHANGED <<registry, shared, nmapMode, liveKinds, file, session, probeVars, usbBus,
                   arpTable>>

\* source.list_devices(rescan)
ListDevices ==
    \E source \in SourceKeys, rescan \in BOOLEAN :
        Queried([Started("list_devices") EXCEPT
                    !.key.kind = source, !.scan = rescan,
                    !.first = IF rescan THEN <<>> ELSE Repeated(source)],
                Scanner_list_devices(source, Sources, Backends, rescan))

\* source.find_devices(rescan, **filters)
FindDevices ==
    \E source \in SourceKeys, rescan \in BOOLEAN, filters \in ScanFilters :
        Queried([Started("find_devices") EXCEPT
                    !.key.kind = source, !.scan = rescan, !.filters = filters],
                Scanner_find_devices(source, Sources, Backends, rescan, filters))

\* Devices are plugged in and out between two calls.
BusChanges ==
    /\ USB \in liveKinds
    /\ usbBus' \in ScanUsbBatches \ {usbBus}
    /\ UNCHANGED <<registry, usbDevices, lanDevices, nmapResults, nmapMode, liveKinds,
                   file, session, probeVars, arpTable, shared, last>>

\* The neighbour table changes between two calls.
ArpChanges ==
    /\ LAN \in liveKinds
    /\ arpTable' \in ScanArpTables \ {arpTable}
    /\ UNCHANGED <<registry, usbDevices, lanDevices, nmapResults, nmapMode, liveKinds,
                   file, session, probeVars, usbBus, shared, last>>

NextSources ==
    \/ ListDevices
    \/ FindDevices
    \/ BusChanges
    \/ ArpChanges

SpecSources == InitSources /\ [][NextSources]_vars

(***************************************************************************)
(* Vocabulary of the properties                                            *)
(***************************************************************************)

\* The devices the registry holds.
StoredDevices == UNION {Range(registry[n]) : n \in DOMAIN registry}

\* The registry before the last operation, and what its key selected there.
Pre == last.pre.registry
Selection == DeviceDict_get(Pre, last.key)
Selected == Range(Selection.selected)

\* The device at position i under the name of the last key, before and after
\* the operation (get keeps the positions).
Before(i) == Pre[last.key.name][i]
After(i) == registry[last.key.name][i]

\* The device of `kind` stored under `name`.
StoredAt(name, kind) == registry[name][KindIndex(registry[name], kind)]

\* The source caches are as they were before the last operation.
CachesUnchanged ==
    /\ usbDevices = last.pre.usb
    /\ lanDevices = last.pre.lan
    /\ nmapResults = last.pre.nmap

\* No address of the device is both current and historical.
Disjoint(d) == Range(d.old_addresses) \cap Range(all_addresses(d)) = {}

NoDuplicates(s) == \A i, j \in DOMAIN s : s[i] = s[j] => i = j

\* The devices with the identifier of `d` that the backend of its kind, and
\* for LAN the probe, report at present.
Reported(d) ==
    IF d.device_type = USB THEN filter_devices(usbBus, unique_identifier(d))
    ELSE filter_devices(get_arp_cache(arpTable, <<>>) \o nmap_devices(nmapResults).devices,
                        unique_identifier(d))

\* The devices with `address` that the batches held before the last
\* operation, and that the backends and the probe report.
ReportedAt(address) ==
    filter_devices(last.pre.usb \o last.pre.lan
                       \o usbBus \o get_arp_cache(arpTable, <<>>)
                       \o nmap_devices(nmapResults).devices,
                   [address |-> address])

\* find_by_device on `r` goes to the discovery source.
Searches(r, scan) == Len(all_addresses(r)) = 0 \/ scan

\* `d` is `r` merged with the match `m`.
Merged(r, m, d) ==
    /\ d.address = m.address
    /\ d.address_aliases = m.address_aliases
    /\ (Range(all_addresses(r)) \cup Range(r.old_addresses)) \ Range(all_addresses(m))
          \subseteq Range(d.old_addresses)
    /\ Range(d.old_addresses) \cap Range(all_addresses(m)) = {}
    /\ NoDuplicates(d.old_addresses)

\* The kind a key kind denotes, None if it denotes none.
Denotes(kind) ==
    IF kind \in {NoKind, BadKey} THEN None ELSE get_key(kind).kind

\* The key of the last operation names nothing the registry held.
NotStored ==
    /\ last.key.kind # BadKey
    /\ \/ last.key.name \notin DOMAIN Pre
       \/ /\ last.key.kind # NoKind
          /\ \A d \in Range(Pre[last.key.name]) : d.device_type # Denotes(last.key.kind)

(***************************************************************************)
(* Properties                                                              *)
(***************************************************************************)

\* C1: after every step, no device involved in it (the device handed to
\* find_by_device, the device it returned, the devices the registry holds
\* after set, get, reset_addresses and find_by_device) has an address that is
\* both current and historical.
C1_HistoryDisjoint ==
    /\ \A d \in StoredDevices : Disjoint(d)
    /\ \A i \in DOMAIN last.ref : Disjoint(last.ref[i])
    /\ \A i \in DOMAIN last.ret : Disjoint(last.ret[i])

\* C2: a get with scan=true on devices of which the backends and the probe
\* report none returns normally, and each device it selected then has no
\* current address and has every address that was current in its history.
C2_DisappearedIsReset ==
    (/\ last.op = "get" /\ last.scan /\ Selection.err = "none"
     /\ \A i \in Selected : Reported(Before(i)) = <<>>)
    => /\ last.err = "none"
       /\ \A i \in Selected :
            /\ all_addresses(After(i)) = <<>>
            /\ Range(all_addresses(Before(i))) \subseteq Range(After(i).old_addresses)

\* C3: after a get with scan=true, every device it selected of which the
\* backend reports exactly one device with the same identifier has the address
\* and the aliases of that reported device.
C3_MatchIsAdopted ==
    (last.op = "get" /\ last.scan /\ Selection.err = "none")
    => \A i \in Selected :
          Len(Reported(Before(i))) = 1
          => /\ After(i).address = Reported(Before(i))[1].address
             /\ After(i).address_aliases = Reported(Before(i))[1].address_aliases

\* C4: when get, set or find_by_device searched the source for a device r and
\* found a match m, the device stored (returned, for find_by_device) has the
\* address and aliases of m, and its history holds every address r held
\* before, current or historical, that is not an address of m, no address of
\* m, and nothing twice.
C4_MergeRule ==
    /\ (last.op = "get" /\ last.err = "none")
       => \A i \in Selected :
             (Searches(Before(i), last.scan) /\ Reported(Before(i)) # <<>>)
             => Merged(Before(i), Reported(Before(i))[1], After(i))
    /\ (last.op = "set" /\ last.vtype = "device" /\ last.err = "none"
          /\ Searches(last.arg[1], last.scan) /\ Reported(last.arg[1]) # <<>>)
       => Merged(last.arg[1], Reported(last.arg[1])[1],
                 StoredAt(last.key.name, last.arg[1].device_type))
    /\ (last.op = "find_by_device" /\ last.err = "none"
          /\ Searches(last.arg[1], last.scan) /\ Reported(last.arg[1]) # <<>>)
       => /\ last.ret # <<>>
          /\ Merged(last.arg[1], Reported(last.arg[1])[1], last.ret[1])

\* C4 happens: a get found a match for a device that held an address the match
\* does not have, and that address is now in the history.
C4_Witness ==
    /\ last.op = "get" /\ last.err = "none"
    /\ \E i \in Selected :
          /\ Searches(Before(i), last.scan)
          /\ Reported(Before(i)) # <<>>
          /\ Before(i).old_addresses # <<>>
          /\ Range(all_addresses(Before(i)))
                \ Range(all_addresses(Reported(Before(i))[1])) # {}
          /\ After(i).old_addresses # <<>>

\* C5: find_by_device with scan=false on a device with a current address
\* returns the device itself, unchanged, and calls no source and no probe; a
\* get with scan=false that selects only such devices changes neither the
\* registry nor a source cache.
C5_CheapPath ==
    /\ (last.op = "find_by_device" /\ ~last.scan
          /\ Len(all_addresses(last.arg[1])) > 0)
       => /\ last.err = "none" /\ last.same
          /\ last.ret = last.arg /\ last.ref = last.arg
          /\ last.calls = <<>> /\ CachesUnchanged /\ registry = Pre
    /\ (last.op = "get" /\ ~last.scan /\ Selection.err = "none"
          /\ \A i \in Selected : Len(all_addresses(Before(i))) > 0)
       => /\ last.err = "none" /\ last.calls = <<>>
          /\ CachesUnchanged /\ registry = Pre

\* C5 happens: a get with scan=false kept the addresses of a device that the
\* backend no longer reports.
C5_Witness ==
    /\ last.op = "get" /\ ~last.scan /\ last.err = "none"
    /\ Selection.err = "none"
    /\ \A i \in Selected : Len(all_addresses(Before(i))) > 0
    /\ \E i \in Selected : Reported(Before(i)) = <<>> /\ After(i) = Before(i)

\* C6: a set of a device under a key whose kind, enum or string, denotes
\* another kind than the device's fails with ValueError and leaves the
\* registry as it was.
C6_KindMismatch ==
    (/\ last.op = "set" /\ last.vtype = "device"
     /\ Denotes(last.key.kind) # None
     /\ Denotes(last.key.kind) # last.arg[1].device_type)
    => last.err = "ValueError" /\ registry = Pre

\* C6 happens, for a name that has entries and for a name that is absent.
C6_Witness ==
    /\ last.op = "set" /\ last.vtype = "device" /\ last.err = "ValueError"
    /\ last.key.kind = EnumKind(LAN) /\ last.arg[1].device_type = USB
    /\ last.key.name \in DOMAIN registry
    /\ registry = Pre

\* C7: a set of a device under a string kind that denotes the device's own
\* kind has the outcome of the same set under the enum kind: it succeeds when
\* that one does and stores the device under the name and the kind.
C7_StringKindAsEnum ==
    (/\ last.op = "set" /\ last.vtype = "device"
     /\ last.key.kind[1] = "str"
     /\ Denotes(last.key.kind) = last.arg[1].device_type)
    => /\ last.err =
            DeviceManager_set(Pre,
                [usb |-> last.pre.usb, lan |-> last.pre.lan, nmap |-> last.pre.nmap,
                 calls |-> <<>>, fresh |-> {}],
                Backends,
                [name |-> last.key.name, kind |-> EnumKind(Denotes(last.key.kind))],
                [type |-> "device", dev |-> last.arg[1]], last.scan,
                CHOOSE ord \in HashOrders : TRUE,
                [ok |-> FALSE, hosts |-> <<>>]).err
       /\ last.err = "none"
          => /\ last.key.name \in DOMAIN registry
             /\ \E d \in Range(registry[last.key.name]) :
                   d.device_type = last.arg[1].device_type

\* C8: a set of an address that no batch holds and no backend and no probe
\* reports a device at fails with ValueError and leaves the registry as it
\* was, for a key with no kind, with an enum kind and with a string kind.
C8_AddressNotFound ==
    (/\ last.op = "set" /\ last.vtype = "str"
     /\ last.key.kind # BadKey
     /\ ReportedAt(last.address) = <<>>)
    => last.err = "ValueError" /\ registry = Pre

\* C9: a set of a value that is neither a string nor a Device fails with
\* TypeError and leaves the registry as it was, whatever the key.
C9_ValueType ==
    (last.op = "set" /\ last.vtype = "other")
    => last.err = "TypeError" /\ registry = Pre

\* C9 happens on a registry that holds devices.
C9_Witness ==
    /\ last.op = "set" /\ last.vtype = "other" /\ last.err = "TypeError"
    /\ last.key.kind # BadKey
    /\ registry # <<>> /\ registry = Pre

\* C10: a get or a remove with a key that names nothing stored (the name is
\* not stored, or the kind is not stored under the name) fails with KeyError
\* and leaves the registry as it was; after a remove that succeeded, the same
\* remove fails with KeyError.
C10_NotFound ==
    /\ (last.op \in {"get", "remove"} /\ NotStored)
       => last.err = "KeyError" /\ registry = Pre
    /\ (last.op = "remove" /\ last.err = "none")
       => /\ DeviceDict_remove(registry, last.key).err = "KeyError"
          /\ DeviceDict_remove(registry, last.key).reg = registry

\* C10 happens: a remove of a kind that is not stored under a stored name.
C10_Witness ==
    /\ last.op = "remove" /\ last.err = "KeyError"
    /\ last.key.name \in DOMAIN registry
    /\ last.key.kind # NoKind
    /\ registry = Pre

\* The kinds stored in a kind map, in its order.
KindsOf(devices) == [i \in DOMAIN devices |-> devices[i].device_type]

\* C11: every stored name has a non-empty kind map with at most one device
\* per kind; after a set that succeeded the name is stored, with exactly the
\* device set if the name was new; a remove of one of several kinds keeps the
\* name and its other kinds, and a remove of the only kind removes the name.
C11_KindMaps ==
    /\ \A n \in DOMAIN registry :
          /\ Len(registry[n]) > 0
          /\ NoDuplicates(KindsOf(registry[n]))
    /\ (last.op = "set" /\ last.err = "none")
       => /\ last.key.name \in DOMAIN registry
          /\ last.key.name \notin DOMAIN Pre => Len(registry[last.key.name]) = 1
    /\ (last.op = "remove" /\ last.err = "none" /\ last.key.kind # NoKind)
       => IF Len(Pre[last.key.name]) > 1
          THEN /\ last.key.name \in DOMAIN registry
               /\ Range(registry[last.key.name])
                     = {d \in Range(Pre[last.key.name]) :
                           d.device_type # Denotes(last.key.kind)}
          ELSE last.key.name \notin DOMAIN registry

\* C11 happens: the only kind entry of a name was removed and the name is
\* gone.
C11_Witness ==
    /\ last.op = "remove" /\ last.err = "none" /\ last.key.kind # NoKind
    /\ Len(Pre[last.key.name]) = 1
    /\ last.key.name \notin DOMAIN registry

C13_ListIsCached ==
    (last.op = "list_devices" /\ last.first # <<>>)
    => /\ last.err = "none"
       /\ last.ret = last.first[1]
       /\ ~Probed(last.calls)

\* The canonical spelling of a hardware address: upper case, colons.
Canonical(mac) == [i \in DOMAIN mac |-> IF i % 3 = 0 THEN ":" ELSE Upper(mac[i])]

\* A device matches every filter.
Matches(d, filters) ==
    \A attr \in DOMAIN filters :
        CASE attr = "address" ->
                filters[attr] = d.address \/ filters[attr] \in Range(d.address_aliases)
          [] attr = "mac_address" ->
                attr \in DOMAIN d /\ d[attr] = Canonical(filters[attr])
          [] OTHER -> attr \in DOMAIN d /\ d[attr] = filters[attr]

\* The last call was made on the aggregate source / on the source of one kind.
OnAggregate ==
    last.op \in {"list_devices", "find_devices"} /\ last.key.kind = NoKind
OnKind(op) == last.op = op /\ last.key.kind # NoKind

\* The _scan calls among the calls of the last operation.
ScanCalls == SelectSeq(last.calls, LAMBDA c : c[1] \in Range(DeviceTypes))

\* C14.  list_devices and find_devices on the aggregate source call the _scan
\* of every kind with the rescan flag given and return, without raising, the
\* USB batch followed by the LAN batch (find: the matching devices of it).
C14_AggregateConcatenates ==
    OnAggregate
    => /\ last.err = "none"
       /\ ScanCalls = <<<<USB, last.scan>>, <<LAN, last.scan>>>>
       /\ last.ret = SelectSeq(usbDevices \o lanDevices,
                               LAMBDA d : Matches(d, last.filters))

\* C15.  find_devices on the source of a kind returns exactly the devices of
\* its batch that match every filter: an address filter matches the primary
\* address or an alias, a hardware-address filter is compared in canonical
\* spelling and any valid spelling is accepted, a filter on an attribute the
\* device lacks matches nothing, and a filter for an absent component matches
\* the devices that lack it.
C15_FindMatches ==
    OnKind("find_devices")
    => /\ ("mac_address" \in DOMAIN last.filters => regex_mac(last.filters.mac_address))
          => last.err = "none"
       /\ last.err = "none"
          => last.ret = SelectSeq(IF Denotes(last.key.kind) = USB
                                  THEN usbDevices ELSE lanDevices,
                                  LAMBDA d : Matches(d, last.filters))

\* A search by a lower-case, dash-separated hardware address found one device
\* of two.
C15_Witness ==
    /\ OnKind("find_devices") /\ last.err = "none"
    /\ Denotes(last.key.kind) = LAN
    /\ last.filters = [mac_address |-> MacALower]
    /\ Len(lanDevices) = 2 /\ Len(last.ret) = 1

(***************************************************************************)
(* Properties of the registry and its file (SpecPersist)                   *)
(***************************************************************************)

\* What json.load reads for the device of `kind` under `name` in the file.
FileEntry(name, kind) ==
    json_load(file[name][CHOOSE i \in DOMAIN file[name] : file[name][i].kind = kind].raw)

\* The addresses of a serialized device.
FileAddresses(raw) ==
    (IF raw.address = None THEN {} ELSE {raw.address}) \cup Range(raw.address_aliases)

\* The identifying attributes of a serialized device of `kind`, None or NoMac
\* for one that is not in the dictionary.
FileIdentifier(kind, raw) ==
    IF kind = USB
    THEN [vendor_id |-> Field(raw, "vendor_id", None),
          product_id |-> Field(raw, "product_id", None),
          serial |-> Field(raw, "serial", None)]
    ELSE [mac_address |-> Field(raw, "mac_address", NoMac)]

\* The source of the kind of device d holds a device with the identifier of
\* d at address a.
ReportedWith(d, a) ==
    \E b \in Range(Batch(Sources, d.device_type)) :
        Matches(b, unique_identifier(d)) /\ a \in Range(all_addresses(b))

\* What the backend of `kind` reports now.
BackendBatch(kind) == IF kind = USB THEN usbBus ELSE get_arp_cache(arpTable, <<>>)

\* The first device the backend reports with the identifier of a serialized
\* device has the address and the aliases serialized.
StillReported(kind, raw) ==
    /\ \E b \in Range(BackendBatch(kind)) : Matches(b, FileIdentifier(kind, raw))
    /\ LET found == SelectSeq(BackendBatch(kind),
                              LAMBDA b : Matches(b, FileIdentifier(kind, raw)))
       IN  found[1].address = raw.address /\ found[1].address_aliases = raw.address_aliases

\* C16.  After a load, an address read from the file is a current address of
\* the device loaded only if the source holds a device with that device's
\* identifier at it, and every other address read from the file is in the
\* device's history.
C16_LoadedAddresses ==
    last.op = "load"
    => \A e \in last.loaded : \A a \in FileAddresses(FileEntry(e[1], e[2])) :
          /\ a \in Range(all_addresses(StoredAt(e[1], e[2])))
             => ReportedWith(StoredAt(e[1], e[2]), a)
          /\ a \notin Range(all_addresses(StoredAt(e[1], e[2])))
             => a \in Range(StoredAt(e[1], e[2]).old_addresses)

\* A load found a device at another address than the one in the file, which
\* went to the history.
C16_Witness ==
    /\ last.op = "load" /\ last.err = "none"
    /\ \E e \in last.loaded :
          /\ StoredAt(e[1], e[2]).address # None
          /\ \E a \in FileAddresses(FileEntry(e[1], e[2])) :
                /\ a \notin Range(all_addresses(StoredAt(e[1], e[2])))
                /\ a \in Range(StoredAt(e[1], e[2]).old_addresses)

\* The registry and the file hold the same names and, under each, devices of
\* the same kinds with the same identifier, address and aliases.
SameAsFile ==
    /\ DOMAIN registry = DOMAIN file
    /\ \A n \in DOMAIN file :
          /\ DOMAIN registry[n] = DOMAIN file[n]
          /\ \A i \in DOMAIN file[n] :
                /\ registry[n][i].device_type = file[n][i].kind
                /\ unique_identifier(registry[n][i])
                      = FileIdentifier(file[n][i].kind, json_load(file[n][i].raw))
                /\ registry[n][i].address = json_load(file[n][i].raw).address
                /\ registry[n][i].address_aliases
                      = json_load(file[n][i].raw).address_aliases

\* C17.  A save writes the names, kinds, identifiers, addresses and aliases
\* of the registry, and a load of a file into a cleared manager whose
\* backends report every device of the file at the address and aliases
\* written returns normally and stores the same.
C17_RoundTrip ==
    /\ last.op = "save" => SameAsFile
    /\ (/\ last.op = "load" /\ last.clear
        /\ \A n \in DOMAIN file : \A i \in DOMAIN file[n] :
               StillReported(file[n][i].kind, json_load(file[n][i].raw)))
       => last.err = "none" /\ SameAsFile

\* A file with a USB and a LAN device under one name was loaded while both
\* were reported as written.
C17_Witness ==
    /\ last.op = "load" /\ last.clear /\ last.err = "none"
    /\ \E n \in DOMAIN file : Len(file[n]) = 2
    /\ \A n \in DOMAIN file : \A i \in DOMAIN file[n] :
           StillReported(file[n][i].kind, json_load(file[n][i].raw))
    /\ SameAsFile

\* The addresses a device has or had.
EverAddresses(d) == Range(all_addresses(d)) \cup Range(d.old_addresses)

\* C18.  When the registry is saved and then loaded, every address a device
\* had or has before the save is an address the device has or had after the
\* load.
C18_HistoryKept ==
    (last.op = "load" /\ last.err = "none" /\ file = DeviceManager_save(Pre))
    => \A n \in DOMAIN Pre : \A i \in DOMAIN Pre[n] :
          /\ n \in DOMAIN registry
          /\ KindIndex(registry[n], Pre[n][i].device_type) # 0
          /\ EverAddresses(Pre[n][i])
                \subseteq EverAddresses(StoredAt(n, Pre[n][i].device_type))

\* C25.  At the end of a load_device_manager block the registry is written
\* to the file exactly when autosave is set and the block ended without an
\* exception; otherwise, and when the load at its start raised, the file is
\* left as it was.
C25_Autosave ==
    /\ last.op = "exit"
       => /\ last.result = (last.scan /\ last.err = "none")
          /\ file = IF last.scan /\ last.err = "none" THEN DeviceManager_save(registry)
                    ELSE last.file
    /\ last.op = "load_device_manager" => file = last.file

\* A block with autosave ended by an exception after the registry had
\* changed in it, and one ended normally that wrote a changed registry.
C25_Witness ==
    /\ last.op = "exit" /\ last.scan
    /\ DeviceManager_save(registry) # last.file
    /\ last.err # "none"

C25_WitnessSaved ==
    /\ last.op = "exit" /\ last.scan /\ last.err = "none"
    /\ file # last.file

(***************************************************************************)
(* Properties of the searches of the registry (Spec)                       *)
(***************************************************************************)

\* The probe scans among the calls of the last operation, and its queries of
\* the sources and probe scans in call order.
ProbeCalls == SelectSeq(last.calls, LAMBDA c : c[1] = "nmap")
Stages == SelectSeq(last.calls, LAMBDA c : c[1] \in {USB, LAN, "nmap"})

\* The batch of the kind of `d` holds no device with the identifier of `d`.
Unmatched(d) ==
    filter_devices(IF d.device_type = USB THEN usbDevices ELSE lanDevices,
                   unique_identifier(d)) = <<>>

\* C26.  When find_by_device has rescanned and the batch holds no match: for
\* a LAN device the probe scans once and the LAN source is asked again
\* without rescan, for a USB device the probe is not used; with still no
\* match the call returns None.
C26_ProbeFallback ==
    (/\ last.op = "find_by_device"
     /\ Searches(last.arg[1], last.scan)
     /\ Unmatched(last.arg[1]))
    => /\ last.err = "none"
       /\ last.ret = <<>>
       /\ last.arg[1].device_type = USB => ProbeCalls = <<>>
       /\ (last.arg[1].device_type = LAN /\ nmapMode # "absent")
          => /\ Len(ProbeCalls) = 1
             /\ last.calls[Len(last.calls)] = <<LAN, FALSE>>

\* The same for the USB devices.
C26_Usb ==
    (last.op = "find_by_device" /\ last.arg[1].device_type = USB)
    => C26_ProbeFallback

\* The kinds whose source a set under the kind key `kind` asks.
Requested(kind) == IF kind = NoKind THEN <<USB, LAN>> ELSE <<Denotes(kind)>>

\* A batch of a requested kind held a device at the address before the set.
CachedAt(kind, address) ==
    \E d \in Range(last.pre.usb \o last.pre.lan) :
        /\ d.device_type \in Range(Requested(kind))
        /\ address \in Range(all_addresses(d))

\* The ways a search of an address in the source of `kind` can go: the query
\* of the cache, the query with rescan, and for LAN the probe scan (which
\* makes the LAN source scan, if there is a port scanner) and a last query.
Resolutions(kind) ==
    {<<<<kind, FALSE>>>>, <<<<kind, FALSE>>, <<kind, TRUE>>>>}
    \cup (IF kind # LAN THEN {}
          ELSE {<<<<LAN, FALSE>>, <<LAN, TRUE>>, <<"nmap", FALSE>>, <<LAN, TRUE>>,
                  <<LAN, FALSE>>>>,
                <<<<LAN, FALSE>>, <<LAN, TRUE>>, <<"nmap", FALSE>>, <<LAN, FALSE>>>>})

\* C27.  A set of an address asks the source of the requested kind for its
\* cached batch, then with rescan, then (LAN or no kind only) the probe, and
\* stops at the first hit: a kind given keeps the other source unasked, and a
\* hit in the cache means one query, without rescan, and the device stored.
C27_SetResolves ==
    (last.op = "set" /\ last.vtype = "str" /\ last.key.kind # BadKey)
    => /\ last.key.kind # NoKind => Stages \in Resolutions(Denotes(last.key.kind))
       /\ ProbeCalls # <<>> => Denotes(last.key.kind) \in {LAN, None}
       /\ CachedAt(last.key.kind, last.address)
          => /\ last.err = "none"
             /\ Stages = [i \in DOMAIN Requested(last.key.kind) |->
                             <<Requested(last.key.kind)[i], FALSE>>]

\* The same for the sets with a kind given.
C27_KindGiven ==
    (last.op = "set" /\ last.key.kind # NoKind) => C27_SetResolves

(***************************************************************************)
(* Properties of the probe (SpecProbe)                                     *)
(***************************************************************************)

\* C19.  At most one scan of the port scanner runs at any time, whatever the
\* order of scan, scan_async and the ends of scans.
C19_OneScanAtATime ==
    ~(syncScan = "scanning" /\ nmapThread.state = "scanning")

\* The scan_async calls that returned True.
Accepted == {i \in DOMAIN asyncCalls : asyncCalls[i].ret}

\* C20.  A scan_async made while a scan thread is alive returns False, starts
\* no thread and its on_done is never called; one made while none is alive,
\* also after an earlier one has ended, returns True and starts one thread,
\* the only one.
C20_ScanAsync ==
    /\ last.op = "scan_async"
       => IF is_alive(last.thread)
          THEN /\ ~asyncCalls[Len(asyncCalls)].ret
               /\ nmapThread.call = last.thread.call
          ELSE /\ asyncCalls[Len(asyncCalls)].ret
               /\ nmapThread.call = Len(asyncCalls)
    /\ onDone \subseteq {i \in Accepted : asyncCalls[i].on_done}
    /\ nmapThread.state # "none"
       => nmapThread.call \in Accepted /\ \A i \in Accepted : i <= nmapThread.call

\* A scan_async was accepted after the thread of an earlier one had ended,
\* and one in between was refused.
C20_Witness ==
    /\ last.op = "scan_async"
    /\ last.thread.state = "finished"
    /\ Len(asyncCalls) = 3
    /\ asyncCalls[1].ret /\ ~asyncCalls[2].ret /\ asyncCalls[3].ret
    /\ nmapThread.call = 3

\* C21.  Every scan that has ended, started by scan or by scan_async, with
\* whatever outcome of the port scanner and also without a port scanner, has
\* invoked the LAN source's callback and then the on_done handed to it (if
\* one was), each once, in that order, with the same boolean flag.
C21_CallbacksRun ==
    callbacks.scan # "none"
    => \E flag \in BOOLEAN :
          callbacks.events =
             <<<<"parent", flag>>>>
             \o (IF callbacks.on_done THEN <<<<"on_done", flag>>>> ELSE <<>>)

\* The same for the scans made with a port scanner whose notified LAN scan
\* returned.
C21_WithPortScanner ==
    (callbacks.scan # "none" /\ nmapMode = "ok" /\ callbacks.err = "none")
    => C21_CallbacksRun

\* C22.  wait_for_scan returns whether the scan thread is still alive when it
\* returns: False when no scan was running or the scan ended within the
\* wait, True only when the timeout elapsed with the scan still running.
C22_WaitForScan ==
    last.op = "wait_for_scan" => last.result = last.alive

\* The same for the calls that found a scan thread alive.
C22_AfterJoin ==
    (last.op = "wait_for_scan" /\ is_alive(last.thread))
    => /\ last.result = last.alive
       /\ last.result => last.scan
\* The batch `devices` holds, for each raw result with a hardware address,
\* exactly one device of that address, and that device holds the result's
\* addresses, each alias being a plain address.
Derived(raws, devices) ==
    \A i \in DOMAIN raws :
       raws[i].mac # NoMac
       => /\ Cardinality({j \in DOMAIN devices :
                             devices[j].mac_address = format_mac(raws[i].mac).val}) = 1
          /\ \A j \in DOMAIN devices :
                devices[j].mac_address = format_mac(raws[i].mac).val
                => /\ Range(raws[i].ips) \subseteq Range(all_addresses(devices[j]))
                   /\ Range(devices[j].address_aliases) \subseteq Addresses

\* C31.  wait_for_scan returns True when no scan was running or the scan has
\* ended by the time it returns, and False when the timeout elapsed with the
\* scan still running.
C31_WaitCompleted ==
    last.op = "wait_for_scan" => last.result = ~last.alive

\* The same for the calls that found no scan thread alive.
C31_NoScan ==
    (last.op = "wait_for_scan" /\ ~is_alive(last.thread))
    => last.result = ~last.alive

\* The last scan to end was one of scan_async, it succeeded, and both its
\* callbacks returned.
AsyncScanSucceeded ==
    /\ callbacks.scan = "scan_async"
    /\ callbacks.err = "none"
    /\ callbacks.events # <<>>
    /\ callbacks.events[1][2]

\* C28.  Once a scan of scan_async has succeeded and its callbacks have
\* returned, the LAN batch holds for every hardware address of the probe's
\* results a device with the addresses probed, whatever list_devices calls
\* of the caller the end of the scan was interleaved with.
C28_ProbedInCache ==
    AsyncScanSucceeded => Derived(nmapResults, lanDevices)

\* C29.  The devices derived from the probe's results, by NMAPWrapper.devices
\* and by the fold of the LAN source's scan, are one per hardware address,
\* a further address of a known hardware address becomes a plain alias of
\* its device, and neither derivation raises.
C29_OnePerMac ==
    /\ last.op = "devices"
       => last.err = "none" /\ Derived(last.pre.nmap, last.ret)
    /\ last.op = "list_devices"
       => /\ last.err = "none"
          /\ \A i, j \in DOMAIN last.ret :
                last.ret[i].mac_address = last.ret[j].mac_address => i = j
    /\ callbacks.err = "none"

\* No raw result is stored twice.
StoredOnce == Cardinality(Range(nmapResults)) = Len(nmapResults)

\* A step keeps every raw result stored, at its place.
KeepsResults ==
    \A i \in DOMAIN nmapResults :
       i \in DOMAIN nmapResults' /\ nmapResults'[i] = nmapResults[i]

\* C30.  Over any scan and scan_async calls the probe's result cache only
\* grows, by results it does not hold yet: no result is stored twice, and
\* only clear_devices removes one.
C30_AppendOnly ==
    /\ []StoredOnce
    /\ [][ClearDevices \/ KeepsResults]_vars

\* The second half of C30 alone.
C30_OnlyClearRemoves == [][ClearDevices \/ KeepsResults]_vars
(***************************************************************************)
(* Properties of the values of a device (SpecValues)                        *)
(***************************************************************************)

\* `s` is six octets of two hex digits with a separator between them.
SixOctets(s) ==
    /\ Len(s) = 3 * MacOctets - 1
    /\ \A i \in DOMAIN s :
          IF i % 3 = 0 THEN s[i] \in MacSeparators ELSE s[i] \in HexDigits

\* The hardware address of the device stored under the key of the last call.
StoredMac(reg) == reg[last.key.name][1].mac_address

\* C23.  format_mac and the mac_address setter turn every string of six
\* two-digit hex octets separated by ':', '-' or '.', in any letter case,
\* into the upper-case form with colons, which they leave as it is; any
\* other string is rejected with TypeError and the stored value stays.
C23_FormatMac ==
    /\ last.op = "format_mac"
       => IF SixOctets(last.filters)
          THEN /\ last.err = "none"
               /\ last.ret = Canonical(last.filters)
               /\ format_mac(last.ret) = [err |-> "none", val |-> last.ret]
          ELSE last.err = "TypeError"
    /\ last.op = "mac_address"
       => IF SixOctets(last.filters)
          THEN last.err = "none" /\ StoredMac(registry) = Canonical(last.filters)
          ELSE last.err = "TypeError" /\ StoredMac(registry) = StoredMac(Pre)

\* The same for the strings that do not end in a newline.
C23_OneLine ==
    (last.filters # <<>> /\ last.filters[Len(last.filters)] # "\n") => C23_FormatMac

\* The identifying tuple of a device: its kind and its unique_identifier.
Identity(d) == <<d.device_type, unique_identifier(d)>>

\* C24.  Two devices are equal exactly when they are of one kind and have
\* the same unique_identifier, whatever their addresses; so == is reflexive
\* and symmetric, and devices of different kinds are never equal.
C24_EqualityIsIdentity ==
    last.op = "eq"
    => /\ last.same = (Identity(last.arg[1]) = Identity(last.ref[1]))
       /\ last.same = eq(last.ref[1], last.arg[1])
       /\ eq(last.arg[1], last.arg[1])

\* What of C24 holds: == is reflexive and symmetric, and equal devices are of
\* one kind with one unique_identifier.
C24_Sound ==
    last.op = "eq"
    => /\ last.same => Identity(last.arg[1]) = Identity(last.ref[1])
       /\ last.same = eq(last.ref[1], last.arg[1])
       /\ eq(last.arg[1], last.arg[1])

(***************************************************************************)
(* Queries with more than one candidate                                    *)
(*                                                                         *)
(* A manager whose backend reports two devices a query cannot tell apart:   *)
(* one USB device seen on two ports, or two hosts of the neighbour table at *)
(* one address.                                                            *)
(***************************************************************************)

\* The bus with device A on both ports, in either order of enumeration.
TwoPorts ==
    {b \in [1..2 -> UsbObservations] : b[1] # b[2]}

\* The neighbour table with hosts A and B at the first address, in either
\* order.
TwoHosts ==
    {t \in [1..2 -> {[ip |-> "a1", mac |-> m] : m \in {MacALower, MacB}}] : t[1] # t[2]}

InitAmbiguous ==
    /\ registry = <<>>
    /\ \E setup \in Setups : liveKinds = setup[1] /\ nmapMode = setup[2]
    /\ usbBus \in IF USB \in liveKinds THEN TwoPorts ELSE {<<>>}
    /\ arpTable \in IF LAN \in liveKinds THEN TwoHosts ELSE {<<>>}
    /\ usbDevices = Constructed([bus |-> usbBus, arp |-> arpTable, mode |-> nmapMode]).usb
    /\ lanDevices = Constructed([bus |-> usbBus, arp |-> arpTable, mode |-> nmapMode]).lan
    /\ nmapResults = <<>>
    /\ shared = {}
    /\ file = NoFile
    /\ NoScans
    /\ session = NoSession
    /\ last = NoOp

NextAmbiguous ==
    \/ SetAddress
    \/ SetDevice
    \/ Get
    \/ ResetAddresses
    \/ Return

SpecAmbiguous == InitAmbiguous /\ [][NextAmbiguous]_vars

\* The devices of the batch of `kind` that match `filters`, in batch order.
Candidates(kind, filters) ==
    filter_devices(IF kind = USB THEN usbDevices ELSE lanDevices, filters)

\* warnings.warn was called in the last operation.
WarningRaised == \E i \in DOMAIN last.calls : last.calls[i][1] = "warning"

\* The last operation was a set of an address under a key with a kind, and
\* the source of that kind holds more than one device with the address.
AddressAmbiguous ==
    /\ last.op = "set" /\ last.vtype = "str"
    /\ Denotes(last.key.kind) \in {USB, LAN}
    /\ Len(Candidates(Denotes(last.key.kind), [address |-> last.address])) > 1

\* The last operation was a set of a device that went to the discovery
\* source, which holds more than one device with its identifier.
DeviceAmbiguous ==
    /\ last.op = "set" /\ last.vtype = "device"
    /\ last.key.kind \in {NoKind, EnumKind(last.arg[1].device_type)}
    /\ Searches(last.arg[1], last.scan)
    /\ Len(Candidates(last.arg[1].device_type, unique_identifier(last.arg[1]))) > 1

\* The last operation was a get whose first device went to the discovery
\* source, which holds more than one device with its identifier.
GetAmbiguous ==
    /\ last.op = "get" /\ Selection.err = "none" /\ Selection.selected # <<>>
    /\ Searches(Before(Selection.selected[1]), last.scan)
    /\ Len(Candidates(Before(Selection.selected[1]).device_type,
                      unique_identifier(Before(Selection.selected[1])))) > 1

\* The first device of the last get is as the first candidate for it.
FirstUsed ==
    all_addresses(After(Selection.selected[1]))
      = all_addresses(Candidates(Before(Selection.selected[1]).device_type,
                                 unique_identifier(Before(Selection.selected[1])))[1])

\* C32.  When the query of a set or a get yields more than one candidate,
\* the first one in batch order is used, a warning is raised and the set or
\* get completes without an error.
C32_FirstCandidate ==
    /\ AddressAmbiguous
       => /\ last.err = "none" /\ WarningRaised
          /\ StoredAt(last.key.name, Denotes(last.key.kind))
               = Candidates(Denotes(last.key.kind), [address |-> last.address])[1]
    /\ DeviceAmbiguous
       => /\ last.err = "none" /\ WarningRaised
          /\ all_addresses(StoredAt(last.key.name, last.arg[1].device_type))
               = all_addresses(Candidates(last.arg[1].device_type,
                                          unique_identifier(last.arg[1]))[1])
    /\ GetAmbiguous => last.err = "none" /\ WarningRaised /\ FirstUsed

\* The same for set alone.
C32_Set ==
    /\ AddressAmbiguous
       => /\ last.err = "none" /\ WarningRaised
          /\ StoredAt(last.key.name, Denotes(last.key.kind))
               = Candidates(Denotes(last.key.kind), [address |-> last.address])[1]
    /\ DeviceAmbiguous
       => /\ last.err = "none" /\ WarningRaised
          /\ all_addresses(StoredAt(last.key.name, last.arg[1].device_type))
               = all_addresses(Candidates(last.arg[1].device_type,
                                          unique_identifier(last.arg[1]))[1])

\* The same for get: the warning is raised and the first candidate is used,
\* and the get completes without an error when it reconciles no further
\* device.
C32_Get ==
    GetAmbiguous
    => /\ WarningRaised /\ FirstUsed
       /\ Len(Selection.selected) = 1 => last.err = "none"

\* A get that found more than one candidate for its first device fails on a
\* further one.
C32_GetBoth ==
    GetAmbiguous /\ last.err # "none"

\* Position of the first occurrence of `a` in the sequence `addrs`.
FirstIndex(addrs, a) ==
    CHOOSE i \in DOMAIN addrs : addrs[i] = a /\ \A j \in 1..(i - 1) : addrs[j] # a

\* The history of `a` is the history of `b` followed by the current addresses
\* of `b` that it did not hold, each once, in their all_addresses order.
HistoryExtended(b, a) ==
    LET old == b.old_addresses
        new == a.old_addresses
        added == (Len(old) + 1)..Len(new)
    IN  /\ Len(new) >= Len(old)
        /\ SubSeq(new, 1, Len(old)) = old
        /\ {new[k] : k \in added} = Range(all_addresses(b)) \ Range(old)
        /\ \A p, q \in added :
              p < q => FirstIndex(all_addresses(b), new[p])
                          < FirstIndex(all_addresses(b), new[q])

\* C33.  After DeviceManager.reset_addresses every stored device, reset by
\* Device.reset_addresses, has no primary address and no aliases, its history
\* is extended by the addresses that were current, in all_addresses order and
\* skipping those it held, and its unique_identifier is unchanged; a second
\* reset changes nothing.
C33_ResetAddresses ==
    last.op = "reset_addresses"
    => /\ DOMAIN registry = DOMAIN Pre
       /\ \A n \in DOMAIN Pre :
             /\ DOMAIN registry[n] = DOMAIN Pre[n]
             /\ \A i \in DOMAIN Pre[n] :
                   /\ registry[n][i].address = None
                   /\ registry[n][i].address_aliases = <<>>
                   /\ HistoryExtended(Pre[n][i], registry[n][i])
                   /\ Identity(registry[n][i]) = Identity(Pre[n][i])
       /\ DeviceManager_reset_addresses(registry) = registry

\* A reset of a device whose history holds one of its current addresses.
C33_Witness ==
    /\ last.op = "reset_addresses"
    /\ \E n \in DOMAIN Pre : \E i \in DOMAIN Pre[n] :
          Range(all_addresses(Pre[n][i])) \cap Range(Pre[n][i].old_addresses) # {}

\* C34.  find_by_device leaves the device handed to it as it was: its
\* address, its aliases and its history are the same after the call as
\* before, on every path.
C34_ReferenceUnchanged ==
    last.op = "find_by_device"
    => /\ last.ref[1].address = last.arg[1].address
       /\ last.ref[1].address_aliases = last.arg[1].address_aliases
       /\ last.ref[1].old_addresses = last.arg[1].old_addresses

\* What of C34 holds: the current addresses of the device handed over are
\* never changed, and its history is changed only when a match was merged
\* into the copy returned.
C34_CurrentUnchanged ==
    last.op = "find_by_device"
    => /\ last.ref[1].address = last.arg[1].address
       /\ last.ref[1].address_aliases = last.arg[1].address_aliases
       /\ (last.ret = <<>> \/ last.same) => last.ref = last.arg

\* The last operation asked the backend named for its devices.
Asked(backend) == \E i \in DOMAIN last.calls : last.calls[i][1] = backend

\* The batches hold what they held before the last operation, but for a
\* batch the operation rebuilt from its backend; so list_devices(rescan=False)
\* returns the addresses the source found.
BatchesKept ==
    /\ ~Asked("pyudev") => usbDevices = last.pre.usb
    /\ ~Asked("arp") => lanDevices = last.pre.lan

\* C35.  set, get and DeviceManager.reset_addresses never change a device of
\* a source's cached batch.
C35_BatchesUntouched ==
    last.op \in {"set", "get", "reset_addresses"} => BatchesKept

\* What of C35 holds: set and get leave the devices of the batches alone.
C35_SetGet ==
    last.op \in {"set", "get"} => BatchesKept

\* C36.  A device the registry holds never loses a known address (current
\* or historical) under get, reset_addresses and the set that stores it, and
\* the history of a stored device never holds an address twice.
C36_KnownAddresses ==
    /\ \A d \in StoredDevices : NoDuplicates(d.old_addresses)
    /\ last.op \in {"get", "reset_addresses"}
       => \A n \in DOMAIN Pre : \A i \in DOMAIN Pre[n] :
             EverAddresses(Pre[n][i]) \subseteq EverAddresses(registry[n][i])
    /\ (last.op = "set" /\ last.vtype = "device" /\ last.err = "none")
       => EverAddresses(last.arg[1])
             \subseteq EverAddresses(StoredAt(last.key.name, last.arg[1].device_type))

\* A get moved the address of a stored device to its history and gave it
\* the address reported now.
C36_Witness ==
    /\ last.op = "get" /\ last.err = "none"
    /\ \E i \in DOMAIN registry[last.key.name] :
          /\ Before(i).address # None
          /\ After(i).address \notin {None, Before(i).address}
          /\ Before(i).address \in Range(After(i).old_addresses)

\* A get found no device for a stored one and reset its addresses.
C36_WitnessReset ==
    /\ last.op = "get" /\ last.err = "none"
    /\ \E i \in DOMAIN registry[last.key.name] :
          /\ Before(i).address # None
          /\ After(i).address = None
          /\ Before(i).address \in Range(After(i).old_addresses)

\* The aliases of the device stored in `reg`.
StoredAliases(reg) == reg[last.key.name][1].address_aliases

\* C37.  An assignment to address_aliases that raises TypeError leaves the
\* aliases of the device as they were.
C37_AllOrNothing ==
    (last.op = "address_aliases" /\ last.err = "TypeError")
    => StoredAliases(registry) = StoredAliases(Pre)

\* What of C37 holds: the assignment raises TypeError exactly for a value
\* that cannot be iterated or has an element that is neither a string nor
\* None, and an assignment that returns stores the strings of the value in
\* their order.
C37_Assigned ==
    last.op = "address_aliases"
    => /\ last.err = (IF \/ last.vtype = "other"
                         \/ \E i \in DOMAIN last.filters : last.filters[i] = Number
                     THEN "TypeError" ELSE "none")
       /\ last.err = "none"
          => StoredAliases(registry) = SelectSeq(last.filters, LAMBDA a : a # None)

\* What find_devices with the filters of the last call returns on the source
\* of `kind`: the devices of its batch that match them (C15).
FoundOn(kind) ==
    SelectSeq(IF kind = USB THEN usbDevices ELSE lanDevices,
              LAMBDA d : Matches(d, last.filters))

\* C38.  find_devices on the aggregate source returns what find_devices with
\* the same filters returns on the USB source followed by what it returns on
\* the LAN source, for every filter the sources of a kind accept, hardware
\* addresses in any valid spelling among them.
C38_AggregateFind ==
    (/\ last.op = "find_devices" /\ last.key.kind = NoKind
     /\ "mac_address" \in DOMAIN last.filters => regex_mac(last.filters.mac_address))
    => /\ last.err = "none"
       /\ last.ret = FoundOn(USB) \o FoundOn(LAN)

(***************************************************************************)
(* Files that cannot be loaded                                             *)
(*                                                                         *)
(* A manager beside a file that is replaced between its loads, by files an  *)
(* earlier session saved and by files with a defect.                        *)
(***************************************************************************)

\* A kind tag that names no DeviceType.
UnknownKind == "bluetooth"

\* The entry of a USB device that can be loaded.
GoodEntry ==
    [kind |-> USB,
     raw |-> json_dump(to_dict([UsbAt(IdA, "a1", <<>>) EXCEPT !.revision_id = "r1"]))]

\* Files with a defect: a text that is no JSON document, and an entry that
\* can be loaded followed by one with an unknown kind tag or by one with a
\* string that is no hardware address.
DamagedFiles ==
    {MalformedJson,
     [n \in Names |-> <<GoodEntry, [kind |-> UnknownKind, raw |-> GoodEntry.raw]>>],
     [n \in Names |->
        <<GoodEntry,
          [kind |-> LAN,
           raw |-> [json_dump(to_dict(LanAt(MacA, "a1", <<>>))) EXCEPT
                       !.mac_address = NotAMac]]>>]}

\* The files of an earlier session with one device.
SingleFiles == {f \in SavedFiles : \A n \in DOMAIN f : Len(f[n]) = 1}

InitDamaged ==
    /\ registry = <<>>
    /\ \E setup \in Setups : liveKinds = setup[1] /\ nmapMode = setup[2]
    /\ usbBus \in IF USB \in liveKinds THEN UsbBatches ELSE {<<>>}
    /\ arpTable \in IF LAN \in liveKinds THEN ArpTables ELSE {<<>>}
    /\ usbDevices = Constructed([bus |-> usbBus, arp |-> arpTable, mode |-> nmapMode]).usb
    /\ lanDevices = Constructed([bus |-> usbBus, arp |-> arpTable, mode |-> nmapMode]).lan
    /\ nmapResults = <<>>
    /\ shared = {}
    /\ file \in SingleFiles \cup DamagedFiles
    /\ NoScans
    /\ session = NoSession
    /\ last = NoOp

\* The file is replaced by another one.
FileReplaced ==
    /\ Running
    /\ file' \in (SingleFiles \cup DamagedFiles) \ {file}
    /\ UNCHANGED <<registry, usbDevices, lanDevices, nmapResults, nmapMode, liveKinds,
                   session, probeVars, usbBus, arpTable, shared, last>>

NextDamaged ==
    \/ Load
    \/ FileReplaced
    \/ Return

SpecDamaged == InitDamaged /\ [][NextDamaged]_vars

\* C39.  A load that raises leaves the registry with exactly the entries it
\* held before the call, whether clear was set or not.
C39_AllOrNothing ==
    (last.op = "load" /\ last.err # "none") => registry = Pre

\* What of C39 holds: a load with clear=False that raises leaves every device
\* it did not store as it was.
C39_OthersKept ==
    (last.op = "load" /\ last.err # "none" /\ ~last.clear)
    => \A n \in DOMAIN Pre : \A i \in DOMAIN Pre[n] :
          <<n, Pre[n][i].device_type>> \notin last.loaded
          => /\ n \in DOMAIN registry
             /\ KindIndex(registry[n], Pre[n][i].device_type) # 0
             /\ StoredAt(n, Pre[n][i].device_type) = Pre[n][i]

\* A load of a file with a defect raised after it had changed the registry,
\* with clear set and without.
C39_Cleared ==
    /\ last.op = "load" /\ last.err # "none" /\ last.clear
    /\ file \in DamagedFiles /\ registry # Pre

C39_Partial ==
    /\ last.op = "load" /\ last.err # "none" /\ ~last.clear
    /\ file \in DamagedFiles /\ registry # Pre

\* Two registries hold the same devices as far as their address, aliases,
\* set of historical addresses and unique_identifier go.
SameDevices(a, b) ==
    /\ DOMAIN a = DOMAIN b
    /\ \A n \in DOMAIN a :
          /\ DOMAIN a[n] = DOMAIN b[n]
          /\ \A i \in DOMAIN a[n] :
                /\ a[n][i].address = b[n][i].address
                /\ a[n][i].address_aliases = b[n][i].address_aliases
                /\ Range(a[n][i].old_addresses) = Range(b[n][i].old_addresses)
                /\ Identity(a[n][i]) = Identity(b[n][i])

\* C40.  After get(key, scan=True), the same call made again while the
\* backends report the same leaves every stored device with the address,
\* aliases, set of historical addresses and unique_identifier it has now.
C40_GetIdempotent ==
    (last.op = "get" /\ last.scan)
    => \A ord \in HashOrders :
          SameDevices(
              DeviceManager_get(registry, Sources, Backends, last.key, TRUE, ord).reg,
              registry)

\* A get with scan=True gave a stored device the address reported now.
C40_Witness ==
    /\ last.op = "get" /\ last.scan /\ last.err = "none"
    /\ \E i \in Selected :
          /\ After(i).address # None
          /\ After(i).address # Before(i).address
          /\ Before(i).address # None
====
